---- MODULE Spec2Model ----
(***************************************************************************)
(* A model of inindexer-ts: the orchestrator runIndexer with its window    *)
(* planner (ts/src/indexer.ts), the transaction/receipt correlation state  *)
(* machine InternalIndexerState.processBlock (ts/src/indexer.ts) and the   *)
(* streamers NeardataProvider, ProviderStreamer and                        *)
(* ParallelProviderStreamer with their AsyncQueue (ts/src/neardata.ts).    *)
(***************************************************************************)
EXTENDS Integers, Sequences, FiniteSets, TLC

(***************************************************************************)
(* Bounds of the model.                                                    *)
(***************************************************************************)
\* The Message Source serves the heights 0..MaxHeight; a fetch above it is
\* never issued (the cap of an unbounded stream).
MaxHeight == 4
\* Requested starts are drawn from 0..MaxStart.
MaxStart == 2
\* Prefetch and postfetch margins are drawn from 0..MaxMargin.
MaxMargin == 1
\* genesis_block_height is drawn from 0..MaxGenesis.
MaxGenesis == 1
\* A transaction of a chain scenario has 1..MaxReceipts receipts.
MaxReceipts == 2
\* At most MaxThrows callback invocations of a run fail.
MaxThrows == 1

\* Number.MAX_SAFE_INTEGER: the sentinel of an unbounded end; only its being
\* above every height matters, so the model uses a smaller number that is.
MAX_SAFE_INTEGER == 1000000

\* The value of an absent optional number (undefined).
Undefined == -1

Heights == 0 .. MaxHeight

\* JavaScript truthiness of an optional number: undefined and 0 are falsy.
Truthy(x) == x # Undefined /\ x # 0

\* x ?? d on an optional number.
Nullish(x, d) == IF x = Undefined THEN d ELSE x

Max(a, b) == IF a >= b THEN a ELSE b

(***************************************************************************)
(* JavaScript Map with insertion order, as a sequence of [k, v] entries    *)
(* (IncompleteTransaction.receipts).                                       *)
(***************************************************************************)
MapHas(m, k) == \E i \in 1 .. Len(m) : m[i].k = k

\* A faulty set: the entry is appended even when the key is present.
MapSet_AppendOnly(m, k, v) == Append(m, [k |-> k, v |-> v])

MapSet(m, k, v) ==
  IF MapHas(m, k)
  THEN [i \in 1 .. Len(m) |-> IF m[i].k = k THEN [k |-> k, v |-> v] ELSE m[i]]
  ELSE Append(m, [k |-> k, v |-> v])

MapValues(m) == [i \in 1 .. Len(m) |-> m[i].v]

\* The null value of a receipts entry: the receipt is not resolved yet.
NullReceipt == [resolved |-> FALSE, receipt_id |-> 0, block_height |-> Undefined, status |-> "null"]

RECURSIVE SetAllNull(_, _, _)
\* receipts.set(r, null) for every r of ids, from index i on.
SetAllNull(m, ids, i) ==
  IF i > Len(ids) THEN m ELSE SetAllNull(MapSet(m, ids[i], NullReceipt), ids, i + 1)

\* A faulty index: setting the ids of one source forgets every other key.
PointAll_Replace(idx, ids, hash, i) == [x \in {ids[j] : j \in i .. Len(ids)} |-> hash]

RECURSIVE PointAll(_, _, _, _)
\* receiptToTx.set(r, hash) for every r of ids, from index i on.
PointAll(idx, ids, hash, i) ==
  IF i > Len(ids) THEN idx
  ELSE PointAll([x \in DOMAIN idx \cup {ids[i]} |-> IF x = ids[i] THEN hash ELSE idx[x]],
                ids, hash, i + 1)

\* A faulty correlation step: follow-on receipt ids are not added.
AddFollowOns_None(m, ids, i) == m

RECURSIVE AddFollowOns_Reset(_, _, _)
\* A faulty correlation step: every follow-on id is set to null, present or not.
AddFollowOns_Reset(m, ids, i) ==
  IF i > Len(ids) THEN m
  ELSE AddFollowOns_Reset(MapSet(m, ids[i], NullReceipt), ids, i + 1)

RECURSIVE AddFollowOns(_, _, _)
\* if (!incomplete.receipts.has(id)) incomplete.receipts.set(id, null)
AddFollowOns(m, ids, i) ==
  IF i > Len(ids) THEN m
  ELSE AddFollowOns(IF MapHas(m, ids[i]) THEN m ELSE MapSet(m, ids[i], NullReceipt), ids, i + 1)

(***************************************************************************)
(* The indexer under observation defines every hook.  The log records, in  *)
(* order, every call of a hook (the invocation numbered throwAt of a block *)
(* fails; 0: none does) and every step of the state machine on its maps:   *)
(* "register" (pendingTransactions.set), "resolve" (incomplete.receipts    *)
(* .set(id, processed)) and "complete" (pendingTransactions.delete).       *)
(***************************************************************************)
IndexerHooks ==
  {"processBlock", "processTransaction", "processReceipt", "onTransaction",
   "onReceipt", "processBlockEnd", "finalize"}

RawHooks == {"processBlock", "processTransaction", "processReceipt"}

Entry(cb, height, tx, rid, receipts, threw) ==
  [cb |-> cb, height |-> height, tx |-> tx, rid |-> rid, receipts |-> receipts,
   threw |-> threw]

\* await indexer.<cb>(...): the call is logged, and it throws when it is the
\* invocation numbered st.throwAt of this block.
Invoke(st, cb, height, tx, rid, receipts) ==
  [st EXCEPT !.log = Append(@, Entry(cb, height, tx, rid, receipts,
                                     st.calls + 1 = st.throwAt)),
             !.calls = @ + 1,
             !.thrown = (st.calls + 1 = st.throwAt)]

\* A step of the state machine on its maps, recorded in the log.
Record(st, step, height, tx, rid) ==
  [st EXCEPT !.log = Append(@, Entry(step, height, tx, rid, <<>>, FALSE))]

(***************************************************************************)
(* InternalIndexerState.processBlock.  st holds pendingTransactions (hash  *)
(* -> IncompleteTransaction), receiptToTx (receipt id -> hash) and the     *)
(* calls made while the block is processed.  Once a call has thrown, the   *)
(* rest of the block is skipped.                                           *)
(***************************************************************************)
\* The body of the loop over chunk.transactions, for one transaction.
ProcessOneTransaction(st, tx, message, o) ==
  IF st.thrown THEN st
  ELSE
    LET ids == tx.receipt_ids
        s1 == IF o.preprocess
              THEN [st EXCEPT !.receiptToTx = PointAll(@, ids, tx.hash, 1)]
              ELSE st
        s2 == IF o.preprocess /\ o.preprocess_new_transactions
              THEN Record([s1 EXCEPT !.pendingTransactions =
                             [x \in DOMAIN @ \cup {tx.hash} |->
                                IF x = tx.hash
                                THEN [transaction |-> tx,
                                      receipts |-> SetAllNull(<<>>, ids, 1)]
                                ELSE @[x]]],
                          "register", message.height, tx.hash, 0)
              ELSE s1
    IN IF "processTransaction" \in IndexerHooks /\ o.handle_raw_events
       THEN Invoke(s2, "processTransaction", message.height, tx.hash, 0, <<>>)
       ELSE s2

\* A faulty correlation branch: the receipt is marked resolved, and its
\* owner completed, before onReceipt is invoked.
CorrelateReceipt_ResolveFirst(st, txId, receipt, message, o) ==
  LET incomplete == st.pendingTransactions[txId]
      processed == [resolved |-> TRUE, receipt_id |-> receipt.receipt_id,
                    block_height |-> message.height, status |-> receipt.status]
      rs == AddFollowOns(MapSet(incomplete.receipts, receipt.receipt_id, processed),
                         receipt.receipt_ids, 1)
      all == MapValues(rs)
      s1 == Record([st EXCEPT !.receiptToTx = PointAll(@, receipt.receipt_ids, txId, 1),
                              !.pendingTransactions[txId].receipts = rs],
                   "resolve", message.height, txId, receipt.receipt_id)
      s2 == IF \A i \in 1 .. Len(all) : all[i].resolved
            THEN LET s3 == Record([s1 EXCEPT !.pendingTransactions =
                                      [x \in DOMAIN @ \ {txId} |-> @[x]]],
                                  "complete", message.height, txId, 0)
                 IN IF o.handle_preprocessed_transactions_by_indexer
                    THEN Invoke(s3, "onTransaction", message.height, txId, 0, all)
                    ELSE s3
            ELSE s1
  IN IF s2.thrown \/ ~o.handle_preprocessed_transactions_by_indexer THEN s2
     ELSE Invoke(s2, "onReceipt", message.height, txId, receipt.receipt_id, <<>>)

\* A faulty correlation branch: a completed transaction stays in the open set.
CorrelateReceipt_KeepOpen(st, txId, receipt, message, o) ==
  LET incomplete == st.pendingTransactions[txId]
      processed == [resolved |-> TRUE, receipt_id |-> receipt.receipt_id,
                    block_height |-> message.height, status |-> receipt.status]
      s1 == IF o.handle_preprocessed_transactions_by_indexer
            THEN Invoke(st, "onReceipt", message.height, txId, receipt.receipt_id, <<>>)
            ELSE st
  IN IF s1.thrown THEN s1
     ELSE
       LET rs == AddFollowOns(MapSet(incomplete.receipts, receipt.receipt_id, processed),
                              receipt.receipt_ids, 1)
           all == MapValues(rs)
           s2 == Record([s1 EXCEPT !.receiptToTx = PointAll(@, receipt.receipt_ids, txId, 1),
                                   !.pendingTransactions[txId].receipts = rs],
                        "resolve", message.height, txId, receipt.receipt_id)
       IN IF \A i \in 1 .. Len(all) : all[i].resolved
          THEN LET s3 == Record(s2, "complete", message.height, txId, 0)
               IN IF o.handle_preprocessed_transactions_by_indexer
                  THEN Invoke(s3, "onTransaction", message.height, txId, 0, all)
                  ELSE s3
          ELSE s2

\* The branch taken for a receipt whose owner has an Open Transaction.
CorrelateReceipt(st, txId, receipt, message, o) ==
  LET incomplete == st.pendingTransactions[txId]
      processed == [resolved |-> TRUE, receipt_id |-> receipt.receipt_id,
                    block_height |-> message.height, status |-> receipt.status]
      s1 == IF "onReceipt" \in IndexerHooks /\ o.handle_preprocessed_transactions_by_indexer
            THEN Invoke(st, "onReceipt", message.height, txId, receipt.receipt_id, <<>>)
            ELSE st
  IN IF s1.thrown THEN s1
     ELSE
       LET rs == AddFollowOns(MapSet(incomplete.receipts, receipt.receipt_id, processed),
                              receipt.receipt_ids, 1)
           all == MapValues(rs)
           s2 == Record([s1 EXCEPT !.receiptToTx = PointAll(@, receipt.receipt_ids, txId, 1),
                                   !.pendingTransactions[txId].receipts = rs],
                        "resolve", message.height, txId, receipt.receipt_id)
       IN IF \A i \in 1 .. Len(all) : all[i].resolved
          THEN LET s3 == Record([s2 EXCEPT !.pendingTransactions =
                                    [x \in DOMAIN @ \ {txId} |-> @[x]]],
                                "complete", message.height, txId, 0)
               IN IF "onTransaction" \in IndexerHooks
                     /\ o.handle_preprocessed_transactions_by_indexer
                  THEN Invoke(s3, "onTransaction", message.height, txId, 0, all)
                  ELSE s3
          ELSE s2

\* A faulty receipt step: the raw callback is made for correlated receipts only.
ProcessOneReceipt_RawIfCorrelated(st, receipt, message, o) ==
  IF st.thrown THEN st
  ELSE
    LET txId == IF receipt.receipt_id \in DOMAIN st.receiptToTx
                THEN st.receiptToTx[receipt.receipt_id]
                ELSE ""
    IN IF txId # "" /\ o.preprocess /\ txId \in DOMAIN st.pendingTransactions
       THEN LET s1 == CorrelateReceipt(st, txId, receipt, message, o)
            IN IF s1.thrown THEN s1
               ELSE IF o.handle_raw_events
                    THEN Invoke(s1, "processReceipt", message.height, "", receipt.receipt_id, <<>>)
                    ELSE s1
       ELSE st

\* The body of the loop over shard.receipt_execution_outcomes, for one receipt.
ProcessOneReceipt(st, receipt, message, o) ==
  IF st.thrown THEN st
  ELSE
    LET txId == IF receipt.receipt_id \in DOMAIN st.receiptToTx
                THEN st.receiptToTx[receipt.receipt_id]
                ELSE ""
        s1 == IF txId # "" /\ o.preprocess /\ txId \in DOMAIN st.pendingTransactions
              THEN CorrelateReceipt(st, txId, receipt, message, o)
              ELSE st
    IN IF s1.thrown THEN s1
       ELSE IF "processReceipt" \in IndexerHooks /\ o.handle_raw_events
            THEN Invoke(s1, "processReceipt", message.height, "", receipt.receipt_id, <<>>)
            ELSE s1

RECURSIVE TransactionsOfChunk(_, _, _, _, _)
TransactionsOfChunk(st, txs, j, message, o) ==
  IF j > Len(txs) THEN st
  ELSE TransactionsOfChunk(ProcessOneTransaction(st, txs[j], message, o), txs, j + 1, message, o)

RECURSIVE TransactionPass(_, _, _, _)
\* for (const shard of message.shards): a shard without a chunk is skipped.
TransactionPass(st, i, message, o) ==
  IF i > Len(message.shards) THEN st
  ELSE TransactionPass(IF message.shards[i].chunk
                       THEN TransactionsOfChunk(st, message.shards[i].transactions, 1, message, o)
                       ELSE st,
                       i + 1, message, o)

RECURSIVE ReceiptsOfShard(_, _, _, _, _)
ReceiptsOfShard(st, rs, j, message, o) ==
  IF j > Len(rs) THEN st
  ELSE ReceiptsOfShard(ProcessOneReceipt(st, rs[j], message, o), rs, j + 1, message, o)

RECURSIVE ReceiptPass(_, _, _, _)
ReceiptPass(st, i, message, o) ==
  IF i > Len(message.shards) THEN st
  ELSE ReceiptPass(ReceiptsOfShard(st, message.shards[i].receipt_execution_outcomes, 1,
                                   message, o),
                   i + 1, message, o)

\* A faulty processBlock: processBlockEnd is a raw event like processBlock.
ProcessBlockOp_EndIfRaw(pending, index, message, o, throwAt) ==
  LET s0 == [pendingTransactions |-> pending, receiptToTx |-> index, log |-> <<>>,
             calls |-> 0, throwAt |-> throwAt, thrown |-> FALSE]
      s1 == IF o.handle_raw_events
            THEN Invoke(s0, "processBlock", message.height, "", 0, <<>>)
            ELSE s0
      s2 == TransactionPass(s1, 1, message, o)
      s3 == ReceiptPass(s2, 1, message, o)
  IN IF s3.thrown \/ ~o.handle_raw_events THEN s3
     ELSE Invoke(s3, "processBlockEnd", message.height, "", 0, <<>>)

\* A faulty processBlock: the receipts are processed before the transactions.
ProcessBlockOp_ReceiptsFirst(pending, index, message, o, throwAt) ==
  LET s0 == [pendingTransactions |-> pending, receiptToTx |-> index, log |-> <<>>,
             calls |-> 0, throwAt |-> throwAt, thrown |-> FALSE]
      s1 == IF o.handle_raw_events
            THEN Invoke(s0, "processBlock", message.height, "", 0, <<>>)
            ELSE s0
      s2 == ReceiptPass(s1, 1, message, o)
      s3 == TransactionPass(s2, 1, message, o)
  IN IF s3.thrown THEN s3
     ELSE Invoke(s3, "processBlockEnd", message.height, "", 0, <<>>)

\* processBlock(indexer, message, options) on the state machine's maps; the
\* invocation numbered throwAt fails.  The result holds the maps as the call
\* leaves them, the calls it made and whether it threw.
ProcessBlockOp(pending, index, message, o, throwAt) ==
  LET s0 == [pendingTransactions |-> pending, receiptToTx |-> index, log |-> <<>>,
             calls |-> 0, throwAt |-> throwAt, thrown |-> FALSE]
      s1 == IF "processBlock" \in IndexerHooks /\ o.handle_raw_events
            THEN Invoke(s0, "processBlock", message.height, "", 0, <<>>)
            ELSE s0
      s2 == TransactionPass(s1, 1, message, o)
      s3 == ReceiptPass(s2, 1, message, o)
  IN IF s3.thrown THEN s3
     ELSE IF "processBlockEnd" \in IndexerHooks
          THEN Invoke(s3, "processBlockEnd", message.height, "", 0, <<>>)
          ELSE s3

(***************************************************************************)
(* The Message Source: what a fetch of each height returns.  A message     *)
(* carries its height and its shards; each shard carries the transactions  *)
(* of its chunk (hash, initial receipt ids) and its receipt execution      *)
(* outcomes (receipt id, status, follow-on receipt ids).  A height the     *)
(* source reports absent (null, a 404) has present = FALSE.                *)
(***************************************************************************)
Shard(txs, rcs) == [chunk |-> TRUE, transactions |-> txs, receipt_execution_outcomes |-> rcs]

Message(h, shards) == [present |-> TRUE, height |-> h, shards |-> shards]

AbsentMessage(h) == [present |-> FALSE, height |-> h, shards |-> <<>>]

Transaction(hash, ids) == [hash |-> hash, receipt_ids |-> ids]

ReceiptOutcome(id, status, ids) == [receipt_id |-> id, status |-> status, receipt_ids |-> ids]

\* Chains without transactions: every height present, or one height absent.
PlainChain(absent) ==
  [h \in Heights |-> IF h = absent THEN AbsentMessage(h) ELSE Message(h, <<Shard(<<>>, <<>>)>>)]

PlainChains == {PlainChain(a) : a \in {Undefined} \cup Heights}

\* One transaction T1 at height th with n receipts 1..n, receipt k executed at
\* height th + off + k - 1.  shape "chain": T1 produces receipt 1 and receipt
\* k produces receipt k + 1; shape "flat": T1 produces all n receipts.
OneTxChain(th, n, shape, off, absent) ==
  [h \in Heights |->
     IF h = absent THEN AbsentMessage(h)
     ELSE Message(h, <<Shard(
            IF h = th
            THEN <<Transaction("T1", IF shape = "chain" THEN <<1>> ELSE [k \in 1 .. n |-> k])>>
            ELSE <<>>,
            IF h - th - off + 1 \in 1 .. n
            THEN <<ReceiptOutcome(h - th - off + 1, "SuccessValue",
                                  IF shape = "chain" /\ h - th - off + 1 < n
                                  THEN <<h - th - off + 2>> ELSE <<>>)>>
            ELSE <<>>)>>)]

OneTxChains ==
  {OneTxChain(th, n, shape, off, absent) :
     th \in Heights, n \in 1 .. MaxReceipts, shape \in {"chain", "flat"}, off \in 0 .. 1,
     absent \in {Undefined}}

(***************************************************************************)
(* Run configuration (IndexerOptions) and the ranges it may name.          *)
(***************************************************************************)
NoPreprocess == [set |-> FALSE, prefetch_blocks |-> 0, postfetch_blocks |-> 0]

PreprocessSettings ==
  {NoPreprocess} \cup
  {[set |-> TRUE, prefetch_blocks |-> p, postfetch_blocks |-> q] :
     p \in 0 .. MaxMargin, q \in 0 .. MaxMargin}

NoAutoEnd == [kind |-> "None", height |-> Undefined, count |-> Undefined]

\* { kind: 'Range', start_inclusive, end_exclusive? }
ExplicitRanges ==
  {[kind |-> "Range", start_inclusive |-> s, end_exclusive |-> e,
    start_height_if_does_not_exist |-> Undefined, end |-> NoAutoEnd] :
     s \in 0 .. MaxStart, e \in {Undefined} \cup Heights}

\* AutoContinueEnd: a height, a count relative to the start, or infinite.
AutoContinueEnds ==
  {[kind |-> "Height", height |-> e, count |-> Undefined] : e \in Heights} \cup
  {[kind |-> "Count", height |-> Undefined, count |-> c] : c \in 0 .. MaxStart} \cup
  {[kind |-> "Infinite", height |-> Undefined, count |-> Undefined]}

\* { kind: 'AutoContinue', auto: new AutoContinue(save_location, start, end) }
AutoContinueRanges ==
  {[kind |-> "AutoContinue", start_inclusive |-> Undefined, end_exclusive |-> Undefined,
    start_height_if_does_not_exist |-> s, end |-> e] :
     s \in 0 .. MaxStart, e \in AutoContinueEnds}

IndexerOptions(ranges, settings) ==
  {[stop_on_error |-> soe, range |-> r, preprocess_transactions |-> pre,
    genesis_block_height |-> g] :
     soe \in BOOLEAN, r \in ranges, pre \in settings, g \in 0 .. MaxGenesis}

(***************************************************************************)
(* The window planner of runIndexer.                                       *)
(***************************************************************************)
\* AutoContinue.range(), loaded being what save_location.load() returned.
AutoContinueRange(range, loaded) ==
  LET start == Nullish(loaded, range.start_height_if_does_not_exist)
  IN [start |-> start,
      end |-> IF range.end.kind = "Height" THEN range.end.height
              ELSE IF range.end.kind = "Count" THEN start + range.end.count
              ELSE MAX_SAFE_INTEGER]

\* start_block_height, end_block_height and post_processor of runIndexer.
ResolveRange(range, loaded) ==
  IF range.kind = "Range"
  THEN [start_block_height |-> range.start_inclusive,
        end_block_height |-> range.end_exclusive,
        post_processor |-> FALSE]
  ELSE LET r == AutoContinueRange(range, loaded)
       IN [start_block_height |-> r.start,
           end_block_height |-> IF r.end = MAX_SAFE_INTEGER THEN Undefined ELSE r.end,
           post_processor |-> TRUE]

\* preprocess?.prefetch_blocks ?? 0
PrefetchBlocks(pre) == IF pre.set THEN pre.prefetch_blocks ELSE 0

\* preprocess?.postfetch_blocks ?? 0
PostfetchBlocks(pre) == IF pre.set THEN pre.postfetch_blocks ELSE 0

PrefetchRange(start_block_height, pre, genesis) ==
  [start |-> Max(start_block_height - PrefetchBlocks(pre), genesis),
   end |-> start_block_height]

PostfetchRange(end_block_height, pre) ==
  [start |-> Nullish(end_block_height, MAX_SAFE_INTEGER),
   end |-> IF Truthy(end_block_height)
           THEN end_block_height + PostfetchBlocks(pre)
           ELSE MAX_SAFE_INTEGER]

StartWithPrefetch(start_block_height, pre, genesis) ==
  Max(genesis, start_block_height - PrefetchBlocks(pre))

EndWithPostfetch(end_block_height, pre) ==
  IF Truthy(end_block_height) THEN end_block_height + PostfetchBlocks(pre) ELSE Undefined

\* height >= range.start && height < range.end
InRange(height, range) == height >= range.start /\ height < range.end

\* Faulty flags: preprocess is set whatever the configuration says.
ProcessingOptions_AlwaysPreprocess(height, pre, inPrefetch, inPostfetch) ==
  [height |-> height,
   preprocess |-> TRUE,
   preprocess_new_transactions |-> ~inPostfetch,
   handle_raw_events |-> ~inPostfetch /\ ~inPrefetch,
   handle_preprocessed_transactions_by_indexer |-> ~inPrefetch]

\* Faulty flags: preprocessed transactions are also withheld in the postfetch
\* region.
ProcessingOptions_HidePostfetch(height, pre, inPrefetch, inPostfetch) ==
  [height |-> height,
   preprocess |-> pre.set,
   preprocess_new_transactions |-> ~inPostfetch,
   handle_raw_events |-> ~inPostfetch /\ ~inPrefetch,
   handle_preprocessed_transactions_by_indexer |-> ~inPrefetch /\ ~inPostfetch]

\* Faulty flags: the correlated callbacks are also invoked in the prefetch
\* region.
ProcessingOptions_CorrelatedInPrefetch(height, pre, inPrefetch, inPostfetch) ==
  [height |-> height,
   preprocess |-> pre.set,
   preprocess_new_transactions |-> ~inPostfetch,
   handle_raw_events |-> ~inPostfetch /\ ~inPrefetch,
   handle_preprocessed_transactions_by_indexer |-> TRUE]

\* The BlockProcessingOptions of a message.
ProcessingOptions(height, pre, inPrefetch, inPostfetch) ==
  [height |-> height,
   preprocess |-> pre.set,
   preprocess_new_transactions |-> ~inPostfetch,
   handle_raw_events |-> ~inPostfetch /\ ~inPrefetch,
   handle_preprocessed_transactions_by_indexer |-> ~inPrefetch]

\* A faulty catch: the failure is rethrown whatever stop_on_error says.
Aborts_Always(thrown, stop_on_error) == thrown

\* catch (e) { if (options.stop_on_error) throw e; }: whether a failure of
\* processBlock leaves the loop.
Aborts(thrown, stop_on_error) == thrown /\ stop_on_error

\* Whether the loop calls post_processor.afterBlock for the message.
CallsAfterBlock(inPrefetch, post_processor) == ~inPrefetch /\ post_processor

\* A faulty afterBlock: the cursor is saved while stopping too.
AfterBlockSaves_WhileStopping(stopping) == TRUE

\* AutoContinue.afterBlock: whether it calls save_location.save.
AfterBlockSaves(stopping) == ~stopping

(***************************************************************************)
(* State.                                                                  *)
(***************************************************************************)
VARIABLES
  options,        \* the IndexerOptions of the run
  chain,          \* the Message Source: height -> message or absent
  streamer,       \* "Neardata", "Provider" or "Parallel"
  saved,          \* the content of the save_location (Undefined: none)
  saves,          \* the values passed to save_location.save, in order
  pc,             \* runIndexer: "start", "loop", "finally", "resolved", "rejected";
                  \* a plain consumer of a stream: "call", "iterate", "ended"
  run,            \* the locals of runIndexer set before the loop
  hasSentPostfetchMessage,
  pendingTransactions, \* InternalIndexerState.pendingTransactions
  receiptToTx,    \* InternalIndexerState.receiptToTx
  log,            \* the indexer's hooks invoked so far, in order
  handed,         \* the BlockProcessingOptions handed to processBlock, in order
  err,            \* the error the loop threw, if any
  throws,         \* the number of callback invocations that failed
  first,          \* stream(first, lastExclusive) as runIndexer called it
  lastExclusive,
  streamEnd,      \* end = lastExclusive ?? Number.MAX_SAFE_INTEGER
  fetchH,         \* the loop variable h of the serial fetch loops
  handleDone,     \* whether the streamer's handle promise has resolved
  queue,          \* AsyncQueue: [values, done]
  nextToEmit,     \* ParallelProviderStreamer
  results,
  active,
  scheduled,
  inflight,       \* the heights whose getMessage is awaited
  backoff,        \* the heights whose worker sleeps before it retries
  pushed,         \* the heights of the messages queue.push accepted, in order
  workers,
  aq,             \* an AsyncQueue on its own: [values, resolvers, done, settled]
  cpc,            \* its consumer in iterator(): "top", "await", "ended"
  awaited,        \* the promise the consumer created last
  received,       \* the items the iterator yielded, in order
  sent,           \* the items pushed before close, in order
  produced,       \* the number of push calls made
  todo,           \* the hook calls processBlock has still to make on the current message
  cur,            \* the message the loop processes and its failing invocation
  events,         \* hook calls and ends of iterations, in the order they happen
  statuses,       \* the statuses of the receipts of a completed transaction
  ifUnknown,      \* the argument of isSuccessful
  verdict,        \* what the success predicates returned
  bufferSize      \* the bufferSize ProviderStreamer was constructed with

runVars == <<saved, saves, pc, run, hasSentPostfetchMessage, pendingTransactions,
             receiptToTx, log, handed, err, throws>>

streamVars == <<first, lastExclusive, streamEnd, fetchH, handleDone, queue, nextToEmit,
                results, active, scheduled, inflight, backoff, pushed>>

configVars == <<options, chain, streamer, workers, bufferSize>>

queueVars == <<aq, cpc, awaited, received, sent, produced>>

stepVars == <<todo, cur, events>>

predVars == <<statuses, ifUnknown, verdict>>

vars == <<configVars, runVars, streamVars, queueVars, stepVars, predVars>>

NoError == [set |-> FALSE, kind |-> "none", height |-> Undefined, call |-> 0]

NoRun ==
  [start_block_height |-> Undefined, end_block_height |-> Undefined, post_processor |-> FALSE,
   prefetchRange |-> [start |-> 0, end |-> 0], postfetchRange |-> [start |-> 0, end |-> 0]]

\* The state after construction, for a configuration drawn from the given sets.
\* No iteration of the loop is in progress.
NoBlock ==
  [set |-> FALSE, height |-> Undefined, throwAt |-> 0, awaiting |-> FALSE,
   phase |-> "calls", save |-> FALSE]

\* constructor(provider: P, bufferSize = 100)
DefaultBufferSize == 100

InitWithBuffer(optionSet, chainSet, streamerSet, workerSet, savedSet, pc0, bufferSet) ==
  /\ bufferSize \in bufferSet
  /\ options \in optionSet
  /\ chain \in chainSet
  /\ streamer \in streamerSet
  /\ workers \in workerSet
  /\ saved \in (IF options.range.kind = "AutoContinue" THEN savedSet ELSE {Undefined})
  /\ saves = <<>>
  /\ pc = pc0
  /\ run = NoRun
  /\ hasSentPostfetchMessage = FALSE
  /\ pendingTransactions = <<>>
  /\ receiptToTx = <<>>
  /\ log = <<>>
  /\ handed = <<>>
  /\ err = NoError
  /\ throws = 0
  /\ first = Undefined
  /\ lastExclusive = Undefined
  /\ streamEnd = Undefined
  /\ fetchH = Undefined
  /\ handleDone = FALSE
  /\ queue = [values |-> <<>>, done |-> FALSE]
  /\ nextToEmit = Undefined
  /\ results = <<>>
  /\ active = 0
  /\ scheduled = Undefined
  /\ inflight = {}
  /\ backoff = {}
  /\ pushed = <<>>
  /\ aq = [values |-> <<>>, resolvers |-> <<>>, done |-> FALSE, settled |-> <<>>]
  /\ cpc = "top"
  /\ awaited = 0
  /\ received = <<>>
  /\ sent = <<>>
  /\ produced = 0
  /\ todo = <<>>
  /\ cur = NoBlock
  /\ events = <<>>
  /\ statuses = <<>>
  /\ ifUnknown = FALSE
  /\ verdict = [set |-> FALSE]

\* The state after construction, the streamer built with the default bufferSize.
InitWith(optionSet, chainSet, streamerSet, workerSet, savedSet, pc0) ==
  InitWithBuffer(optionSet, chainSet, streamerSet, workerSet, savedSet, pc0,
                 {DefaultBufferSize})

(***************************************************************************)
(* AsyncQueue.  A value handed to a waiting consumer reaches it before any *)
(* later value, as one appended to values does, so the resolvers are not   *)
(* kept apart from values; a message is held as its height.                *)
(***************************************************************************)
\* push(v): dropped once the queue is done.
QueuePush(q, v) == IF q.done THEN q ELSE [q EXCEPT !.values = Append(@, v)]

\* close()
QueueClose(q) == [q EXCEPT !.done = TRUE]

\* What queue.push(v) adds to the record of accepted pushes.
Accepted(q, hist, v) == IF q.done THEN hist ELSE Append(hist, v)

(***************************************************************************)
(* ParallelProviderStreamer.                                               *)
(***************************************************************************)
RECURSIVE Drain_Eager(_)
\* A faulty drain: every buffered result is emitted, lowest height first,
\* without waiting for nextToEmit.
Drain_Eager(d) ==
  IF DOMAIN d.results = {} THEN d
  ELSE LET x == CHOOSE y \in DOMAIN d.results : \A z \in DOMAIN d.results : y <= z
       IN Drain_Eager([results |-> [z \in DOMAIN d.results \ {x} |-> d.results[z]],
                       queue |-> IF d.results[x] THEN QueuePush(d.queue, x) ELSE d.queue,
                       pushed |-> IF d.results[x] THEN Accepted(d.queue, d.pushed, x)
                                  ELSE d.pushed,
                       nextToEmit |-> d.nextToEmit])

RECURSIVE Drain_PushAbsent(_)
\* A faulty drain: the entry of an absent height is pushed like a message.
Drain_PushAbsent(d) ==
  IF d.nextToEmit \notin DOMAIN d.results THEN d
  ELSE Drain_PushAbsent([results |-> [x \in DOMAIN d.results \ {d.nextToEmit} |-> d.results[x]],
                         queue |-> QueuePush(d.queue, d.nextToEmit),
                         pushed |-> Accepted(d.queue, d.pushed, d.nextToEmit),
                         nextToEmit |-> d.nextToEmit + 1])

RECURSIVE Drain_SkipMissing(_)
\* A faulty drain: a height whose result is missing is passed over when a
\* later result is buffered.
Drain_SkipMissing(d) ==
  IF \A x \in DOMAIN d.results : x < d.nextToEmit THEN d
  ELSE IF d.nextToEmit \notin DOMAIN d.results
       THEN Drain_SkipMissing([d EXCEPT !.nextToEmit = @ + 1])
       ELSE Drain_SkipMissing(
              [results |-> [x \in DOMAIN d.results \ {d.nextToEmit} |-> d.results[x]],
               queue |-> IF d.results[d.nextToEmit]
                         THEN QueuePush(d.queue, d.nextToEmit) ELSE d.queue,
               pushed |-> IF d.results[d.nextToEmit]
                          THEN Accepted(d.queue, d.pushed, d.nextToEmit) ELSE d.pushed,
               nextToEmit |-> d.nextToEmit + 1])

RECURSIVE Drain(_)
\* The drain loop of scheduleOne's finally block, on the record d of results,
\* nextToEmit, queue and pushed.
Drain(d) ==
  IF d.nextToEmit \notin DOMAIN d.results THEN d
  ELSE Drain([results |-> [x \in DOMAIN d.results \ {d.nextToEmit} |-> d.results[x]],
              queue |-> IF d.results[d.nextToEmit]
                        THEN QueuePush(d.queue, d.nextToEmit) ELSE d.queue,
              pushed |-> IF d.results[d.nextToEmit]
                         THEN Accepted(d.queue, d.pushed, d.nextToEmit) ELSE d.pushed,
              nextToEmit |-> d.nextToEmit + 1])

\* A faulty priming loop: it does not test scheduled < end.
Primed_Unchecked(f, e, w) == w

\* The number of workers the priming loop starts.
Primed(f, e, w) == IF f >= e THEN 0 ELSE IF e - f < w THEN e - f ELSE w

\* ParallelProviderStreamer.stream: the handle's body runs to its end at once,
\* starting the first workers; the handle is resolved.
ParallelStream(f, l) ==
  LET e == Nullish(l, MAX_SAFE_INTEGER)
      n == Primed(f, e, workers)
  IN /\ streamEnd' = e
     /\ nextToEmit' = f
     /\ results' = <<>>
     /\ active' = n
     /\ scheduled' = f + n
     /\ inflight' = f .. (f + n - 1)
     /\ backoff' = {}
     /\ queue' = [values |-> <<>>, done |-> FALSE]
     /\ pushed' = <<>>
     /\ handleDone' = TRUE
     /\ UNCHANGED fetchH

\* A faulty finally block: the worker that finishes is never reassigned.
ParallelFetchDone_NoReassign(x) ==
  /\ streamer = "Parallel"
  /\ x \in inflight
  /\ x \in Heights
  /\ LET d == Drain([results |-> [y \in DOMAIN results \cup {x} |->
                                    IF y = x THEN chain[x].present ELSE results[y]],
                     queue |-> queue, pushed |-> pushed, nextToEmit |-> nextToEmit])
     IN /\ results' = d.results
        /\ nextToEmit' = d.nextToEmit
        /\ pushed' = d.pushed
        /\ scheduled' = scheduled
        /\ inflight' = inflight \ {x}
        /\ active' = active - 1
        /\ queue' = IF active - 1 = 0 /\ DOMAIN d.results = {}
                    THEN QueueClose(d.queue) ELSE d.queue
  /\ UNCHANGED <<first, lastExclusive, streamEnd, fetchH, handleDone, backoff>>

\* getMessage(x) returns a message or null: scheduleOne stores it; its finally
\* block drains the buffer in order, then starts a worker on the next
\* unclaimed height or, with none left, closes the queue when no worker is
\* active and the buffer is empty.
ParallelFetchDone(x) ==
  /\ streamer = "Parallel"
  /\ x \in inflight
  /\ x \in Heights
  /\ LET d == Drain([results |-> [y \in DOMAIN results \cup {x} |->
                                    IF y = x THEN chain[x].present ELSE results[y]],
                     queue |-> queue, pushed |-> pushed, nextToEmit |-> nextToEmit])
     IN /\ results' = d.results
        /\ nextToEmit' = d.nextToEmit
        /\ pushed' = d.pushed
        /\ IF scheduled < streamEnd
           THEN /\ scheduled' = scheduled + 1
                /\ inflight' = (inflight \ {x}) \cup {scheduled}
                /\ active' = (active - 1) + 1
                /\ queue' = d.queue
           ELSE /\ scheduled' = scheduled
                /\ inflight' = inflight \ {x}
                /\ active' = active - 1
                /\ queue' = IF active - 1 = 0 /\ DOMAIN d.results = {}
                            THEN QueueClose(d.queue) ELSE d.queue
  /\ UNCHANGED <<first, lastExclusive, streamEnd, fetchH, handleDone, backoff>>

\* A faulty catch: the worker gives the height up instead of retrying it.
FetchFails_GiveUp(x) ==
  /\ streamer \in {"Parallel", "Provider"}
  /\ x \in inflight
  /\ x \in Heights
  /\ inflight' = inflight \ {x}
  /\ UNCHANGED <<first, lastExclusive, streamEnd, fetchH, handleDone, queue, nextToEmit,
                 results, active, scheduled, pushed, backoff>>

\* getMessage(x) fails: the worker sleeps before it retries the same height.
FetchFails(x) ==
  /\ streamer \in {"Parallel", "Provider"}
  /\ x \in inflight
  /\ x \in Heights
  /\ inflight' = inflight \ {x}
  /\ backoff' = backoff \cup {x}
  /\ UNCHANGED <<first, lastExclusive, streamEnd, fetchH, handleDone, queue, nextToEmit,
                 results, active, scheduled, pushed>>

\* The backoff of a worker ends: it calls getMessage(x) again.
FetchRetry(x) ==
  /\ x \in backoff
  /\ backoff' = backoff \ {x}
  /\ inflight' = inflight \cup {x}
  /\ UNCHANGED <<first, lastExclusive, streamEnd, fetchH, handleDone, queue, nextToEmit,
                 results, active, scheduled, pushed>>

(***************************************************************************)
(* ProviderStreamer.                                                       *)
(***************************************************************************)
\* ProviderStreamer.stream: the handle's loop runs to its first await, or to
\* its end when the range is empty.
ProviderStream(f, l) ==
  LET e == Nullish(l, MAX_SAFE_INTEGER)
  IN /\ streamEnd' = e
     /\ fetchH' = f
     /\ inflight' = IF f < e THEN {f} ELSE {}
     /\ backoff' = {}
     /\ queue' = IF f < e THEN [values |-> <<>>, done |-> FALSE]
                 ELSE QueueClose([values |-> <<>>, done |-> FALSE])
     /\ pushed' = <<>>
     /\ handleDone' = ~(f < e)
     /\ UNCHANGED <<nextToEmit, results, active, scheduled>>

\* getMessage(fetchH) returns a message or null: a message is pushed, and the
\* loop goes on to the next height or, at the end, closes the queue.
ProviderFetchDone ==
  /\ streamer = "Provider"
  /\ fetchH \in inflight
  /\ fetchH \in Heights
  /\ LET q == IF chain[fetchH].present THEN QueuePush(queue, fetchH) ELSE queue
     IN /\ pushed' = IF chain[fetchH].present THEN Accepted(queue, pushed, fetchH) ELSE pushed
        /\ fetchH' = fetchH + 1
        /\ IF fetchH + 1 < streamEnd
           THEN /\ inflight' = {fetchH + 1}
                /\ queue' = q
                /\ handleDone' = handleDone
           ELSE /\ inflight' = {}
                /\ queue' = QueueClose(q)
                /\ handleDone' = TRUE
  /\ UNCHANGED <<first, lastExclusive, streamEnd, nextToEmit, results, active, scheduled,
                 backoff>>

(***************************************************************************)
(* runIndexer.                                                             *)
(***************************************************************************)
\* NeardataProvider.stream: a generator over [first, end) and a handle that
\* is already resolved.
NeardataStream(f, l) ==
  /\ fetchH' = f
  /\ streamEnd' = Nullish(l, MAX_SAFE_INTEGER)
  /\ handleDone' = TRUE
  /\ UNCHANGED <<queue, nextToEmit, results, active, scheduled, inflight, backoff, pushed>>

\* What save_location.load() gives when it rejects.
LoadFails == -2

\* options.range.auto.range() rejects: getStartBlock awaits load() with no
\* handler.
LoadThrows == options.range.kind = "AutoContinue" /\ saved = LoadFails

\* runIndexer with load() rejecting: the rejection leaves runIndexer before
\* its try block is entered.
StartLoadFails ==
  /\ pc = "start"
  /\ LoadThrows
  /\ err' = [set |-> TRUE, kind |-> "load", height |-> Undefined, call |-> 0]
  /\ pc' = "rejected"
  /\ UNCHANGED <<configVars, queueVars, stepVars, predVars, streamVars, saved, saves, run,
                 hasSentPostfetchMessage, pendingTransactions, receiptToTx, log, handed,
                 throws>>

\* runIndexer up to the loop: the range is resolved, the window planned and
\* the stream started over the fetch window.
Start ==
  /\ pc = "start"
  /\ ~LoadThrows
  /\ LET r == ResolveRange(options.range, saved)
         pre == options.preprocess_transactions
         f == StartWithPrefetch(r.start_block_height, pre, options.genesis_block_height)
         l == EndWithPostfetch(r.end_block_height, pre)
     IN /\ run' = [start_block_height |-> r.start_block_height,
                   end_block_height |-> r.end_block_height,
                   post_processor |-> r.post_processor,
                   prefetchRange |-> PrefetchRange(r.start_block_height, pre,
                                                   options.genesis_block_height),
                   postfetchRange |-> PostfetchRange(r.end_block_height, pre)]
        /\ first' = f
        /\ lastExclusive' = l
        /\ CASE streamer = "Neardata" -> NeardataStream(f, l)
             [] streamer = "Provider" -> ProviderStream(f, l)
             [] OTHER -> ParallelStream(f, l)
  /\ pc' = "loop"
  /\ UNCHANGED <<configVars, queueVars, stepVars, predVars, saved, saves, hasSentPostfetchMessage, pendingTransactions,
                 receiptToTx, log, handed, err, throws>>

\* The try block of one iteration of the for-await loop on a delivered
\* message (flags, processBlock, the catch), the invocation numbered throwAt
\* of its processBlock failing (0: none).
LoopProcess(message, throwAt) ==
  LET inPrefetch == InRange(message.height, run.prefetchRange)
      inPostfetch == InRange(message.height, run.postfetchRange)
      processingOptions == ProcessingOptions(message.height, options.preprocess_transactions,
                                             inPrefetch, inPostfetch)
      r == ProcessBlockOp(pendingTransactions, receiptToTx, message, processingOptions,
                          throwAt)
      abort == Aborts(r.thrown, options.stop_on_error)
  IN /\ hasSentPostfetchMessage' = (hasSentPostfetchMessage \/ inPostfetch)
     /\ handed' = Append(handed, processingOptions)
     /\ pendingTransactions' = r.pendingTransactions
     /\ receiptToTx' = r.receiptToTx
     /\ log' = log \o r.log
     /\ throws' = throws + (IF r.thrown THEN 1 ELSE 0)
     /\ err' = IF abort
               THEN [set |-> TRUE, kind |-> "callback", height |-> message.height,
                     call |-> throwAt]
               ELSE err
     /\ pc' = IF abort THEN "finally" ELSE pc
     /\ UNCHANGED run

\* Whether the iteration on the message reaches afterBlock and afterBlock
\* saves: the try block did not rethrow, the height is past the prefetch
\* window, a post-processor exists, and the height is not a postfetch one.
SaveDue(message, throwAt) ==
  LET inPrefetch == InRange(message.height, run.prefetchRange)
      inPostfetch == InRange(message.height, run.postfetchRange)
      r == ProcessBlockOp(pendingTransactions, receiptToTx, message,
                          ProcessingOptions(message.height, options.preprocess_transactions,
                                            inPrefetch, inPostfetch),
                          throwAt)
  IN /\ ~Aborts(r.thrown, options.stop_on_error)
     /\ CallsAfterBlock(inPrefetch, run.post_processor)
     /\ AfterBlockSaves(inPostfetch)

\* await post_processor.afterBlock(height): the cursor is saved when due.
LoopSave(message, doSave) ==
  /\ saves' = IF doSave THEN Append(saves, message.height + 1) ELSE saves
  /\ saved' = IF doSave THEN message.height + 1 ELSE saved

\* One iteration of the for-await loop on a delivered message, the invocation
\* numbered throwAt of its processBlock failing (0: none).
LoopBody(message, throwAt) ==
  /\ LoopProcess(message, throwAt)
  /\ LoopSave(message, SaveDue(message, throwAt))

LoopReady_NoAwait == pc = "loop"

\* for await ... { await processBlock(...); await afterBlock(...) }: the loop
\* asks the receiver for the next message only when the body of the previous
\* iteration has completed.
LoopReady == pc = "loop" /\ ~cur.set

\* The invocations processBlock makes on the message when none fails.
CallsOf(message) ==
  ProcessBlockOp(pendingTransactions, receiptToTx, message,
                 ProcessingOptions(message.height, options.preprocess_transactions,
                                   InRange(message.height, run.prefetchRange),
                                   InRange(message.height, run.postfetchRange)),
                 0).calls

\* The throwAt inputs of an iteration: any of its invocations, while the run
\* has failures left.
ThrowChoices(message) == IF throws < MaxThrows THEN 0 .. CallsOf(message) ELSE {0}

\* NeardataProvider's generator fetches height fetchH: an absent height is
\* skipped, a message is yielded to the loop, which processes it.
GenNext ==
  /\ pc = "loop"
  /\ streamer = "Neardata"
  /\ fetchH < streamEnd
  /\ fetchH \in Heights
  /\ fetchH' = fetchH + 1
  /\ IF chain[fetchH].present
     THEN \E throwAt \in ThrowChoices(chain[fetchH]) : LoopBody(chain[fetchH], throwAt)
     ELSE UNCHANGED runVars
  /\ UNCHANGED <<configVars, queueVars, stepVars, predVars, first, lastExclusive, streamEnd, handleDone, queue, nextToEmit,
                 results, active, scheduled, inflight, backoff, pushed>>

\* NeardataProvider's fetcher fails: the generator throws into the loop.
GenFetchFails ==
  /\ pc = "loop"
  /\ streamer = "Neardata"
  /\ fetchH < streamEnd
  /\ fetchH \in Heights
  /\ err' = [set |-> TRUE, kind |-> "fetch", height |-> fetchH, call |-> 0]
  /\ pc' = "finally"
  /\ UNCHANGED <<configVars, queueVars, stepVars, predVars, streamVars, saved, saves, run, hasSentPostfetchMessage,
                 pendingTransactions, receiptToTx, log, handed, throws>>

\* NeardataProvider's generator is exhausted: the loop ends.
GenEnd ==
  /\ pc = "loop"
  /\ streamer = "Neardata"
  /\ fetchH >= streamEnd
  /\ pc' = "finally"
  /\ UNCHANGED <<configVars, queueVars, stepVars, predVars, streamVars, saved, saves, run, hasSentPostfetchMessage,
                 pendingTransactions, receiptToTx, log, handed, err, throws>>

\* The finally block: await handle, then indexer.finalize(); the run settles.
Finally ==
  /\ pc = "finally"
  /\ handleDone
  /\ log' = IF "finalize" \in IndexerHooks
            THEN Append(log, Entry("finalize", Undefined, "", 0, <<>>, FALSE))
            ELSE log
  /\ pc' = IF err.set THEN "rejected" ELSE "resolved"
  /\ UNCHANGED <<configVars, queueVars, stepVars, predVars, streamVars, saved, saves, run, hasSentPostfetchMessage,
                 pendingTransactions, receiptToTx, handed, err, throws>>

(***************************************************************************)
(* Spec: runIndexer on a NeardataProvider, over every configuration and    *)
(* chains without transactions.                                            *)
(***************************************************************************)
SavedSet == {Undefined} \cup 0 .. MaxStart

Init ==
  InitWith(IndexerOptions(ExplicitRanges \cup AutoContinueRanges, PreprocessSettings),
           PlainChains, {"Neardata"}, {1}, SavedSet, "start")

Next == Start \/ GenNext \/ GenFetchFails \/ GenEnd \/ Finally

Spec == Init /\ [][Next]_vars

(***************************************************************************)
(* The regions of the requested range, as the specification defines them.  *)
(***************************************************************************)
RequestedStart == run.start_block_height

RequestedEnd == run.end_block_height

MarginP == IF options.preprocess_transactions.set
           THEN options.preprocess_transactions.prefetch_blocks ELSE 0

MarginQ == IF options.preprocess_transactions.set
           THEN options.preprocess_transactions.postfetch_blocks ELSE 0

\* fetch-window-start <= x < requested-start
InPrefetchRegion(x) ==
  Max(options.genesis_block_height, RequestedStart - MarginP) <= x /\ x < RequestedStart

\* requested-end is set and requested-end <= x < requested-end + Q
InPostfetchRegion(x) ==
  RequestedEnd # Undefined /\ RequestedEnd <= x /\ x < RequestedEnd + MarginQ

\* C5: for every message handed to the state machine, at height x:
\* preprocess_new_transactions is false iff x is in the postfetch region,
\* handle_raw_events is false iff x is in the prefetch or the postfetch region,
\* handle_preprocessed_transactions_by_indexer is false iff x is in the
\* prefetch region; with the requested end unset there is no postfetch region.
C5_VisibilityFlags ==
  \A i \in 1 .. Len(handed) :
    LET o == handed[i] IN
      /\ o.preprocess_new_transactions = ~InPostfetchRegion(o.height)
      /\ o.handle_raw_events = (~InPrefetchRegion(o.height) /\ ~InPostfetchRegion(o.height))
      /\ o.handle_preprocessed_transactions_by_indexer = ~InPrefetchRegion(o.height)

\* C9: with an auto-continue range, save(x + 1) is called for a delivered
\* height x iff x lies outside the prefetch and outside the postfetch region;
\* with an explicit range the cursor is never saved.
C9_CursorSaved ==
  /\ options.range.kind = "Range" => saves = <<>>
  /\ options.range.kind = "AutoContinue" =>
       \A i \in 1 .. Len(handed) :
         (\E j \in 1 .. Len(saves) : saves[j] = handed[i].height + 1)
           <=> (~InPrefetchRegion(handed[i].height) /\ ~InPostfetchRegion(handed[i].height))

\* C10: runIndexer starts the stream over [max(genesis, s - P), e + Q) for
\* every requested end e >= 0 that is set, and the stream is unbounded above
\* only when the requested end is unset.
C10_FetchWindow ==
  pc # "start" =>
    /\ first = Max(options.genesis_block_height, RequestedStart - MarginP)
    /\ RequestedEnd # Undefined => lastExclusive = RequestedEnd + MarginQ
    /\ lastExclusive = Undefined => RequestedEnd = Undefined

(***************************************************************************)
(* SpecCorr: runIndexer on a NeardataProvider over explicit ranges, the    *)
(* chains holding one transaction whose receipts follow it.                *)
(***************************************************************************)
\* Margins are none or the widest, starts the lowest or the highest.
CorrOptions ==
  {o \in IndexerOptions(ExplicitRanges, PreprocessSettings) :
     /\ o.genesis_block_height = 0
     /\ o.preprocess_transactions.prefetch_blocks \in {0, MaxMargin}
     /\ o.preprocess_transactions.postfetch_blocks \in {0, MaxMargin}
     /\ o.range.start_inclusive \in {0, MaxStart}}

InitCorr == InitWith(CorrOptions, OneTxChains, {"Neardata"}, {1}, {Undefined}, "start")

SpecCorr == InitCorr /\ [][Next]_vars

(***************************************************************************)
(* What the chain holds: its transactions, its receipts, and the receipt   *)
(* ids a transaction is owed (its initial ids and, transitively, the       *)
(* follow-on ids of its receipts).                                         *)
(***************************************************************************)
SeqToSet(sq) == {sq[i] : i \in 1 .. Len(sq)}

ChainTxs ==
  UNION {UNION {{[hash |-> chain[x].shards[i].transactions[j].hash,
                  height |-> x,
                  ids |-> SeqToSet(chain[x].shards[i].transactions[j].receipt_ids)] :
                    j \in 1 .. Len(chain[x].shards[i].transactions)} :
                 i \in 1 .. Len(chain[x].shards)} :
         x \in Heights}

ChainReceipts ==
  UNION {UNION {{[receipt_id |-> chain[x].shards[i].receipt_execution_outcomes[j].receipt_id,
                  height |-> x,
                  follow |-> SeqToSet(chain[x].shards[i].receipt_execution_outcomes[j].receipt_ids)] :
                    j \in 1 .. Len(chain[x].shards[i].receipt_execution_outcomes)} :
                 i \in 1 .. Len(chain[x].shards)} :
         x \in Heights}

RECURSIVE OwedFrom(_, _)
OwedFrom(ids, n) ==
  IF n = 0 THEN ids
  ELSE OwedFrom(ids \cup UNION {r.follow : r \in {q \in ChainReceipts : q.receipt_id \in ids}},
                n - 1)

Owed(t) == OwedFrom(t.ids, Cardinality(ChainReceipts))

\* The log entries of a kind about a transaction.
EntriesOf(cb, hash) == {i \in 1 .. Len(log) : log[i].cb = cb /\ log[i].tx = hash}

\* requested-start <= x < requested-end (no upper limit with the end unset)
InRequestedRange(x) ==
  RequestedStart <= x /\ (RequestedEnd = Undefined \/ x < RequestedEnd)

SetMax(S) == CHOOSE x \in S : \A y \in S : y <= x

\* The receipts of t were resolved, one per block, in n consecutive blocks.
ResolvedAcross(t, n) ==
  LET res == EntriesOf("resolve", t.hash) IN
    /\ {log[i].rid : i \in res} = Owed(t)
    /\ Cardinality(Owed(t)) = n
    /\ \E b \in Heights : {log[i].height : i \in res} = b .. (b + n - 1)

\* t was registered in an in-range block and its n >= 1 receipts were
\* resolved across n consecutive in-range blocks.
C3_Case(t, n) ==
  /\ options.preprocess_transactions.set
  /\ n >= 1
  /\ InRequestedRange(t.height)
  /\ \E i \in EntriesOf("register", t.hash) : log[i].height = t.height
  /\ ResolvedAcross(t, n)
  /\ \A i \in EntriesOf("resolve", t.hash) : InRequestedRange(log[i].height)

\* C3: with preprocessing enabled, a transaction registered in an in-range
\* block whose receipts are resolved across N >= 1 consecutive in-range blocks
\* gets onTransaction exactly once over the run, during the Nth block, with
\* all N receipts; and onTransaction is never invoked for a transaction
\* while a receipt it is owed is unresolved.
C3_CompletedOnce ==
  \A t \in ChainTxs :
    /\ \A i \in EntriesOf("onTransaction", t.hash) :
         {log[i].receipts[k].receipt_id : k \in 1 .. Len(log[i].receipts)} = Owed(t)
    /\ \A n \in 1 .. Cardinality(ChainReceipts) :
         C3_Case(t, n) =>
           /\ Cardinality(EntriesOf("onTransaction", t.hash)) = 1
           /\ \A i \in EntriesOf("onTransaction", t.hash) :
                /\ log[i].height = SetMax({log[j].height : j \in EntriesOf("resolve", t.hash)})
                /\ Len(log[i].receipts) = n
                /\ \A k \in 1 .. n : log[i].receipts[k].resolved

\* A transaction with two receipts in two consecutive in-range blocks has
\* been completed.
C3_Witness ==
  \E t \in ChainTxs : C3_Case(t, 2) /\ EntriesOf("onTransaction", t.hash) # {}

\* The receipts of the chain that t is owed.
OwedReceipts(t) == {q \in ChainReceipts : q.receipt_id \in Owed(t)}

\* The receipts of t form a chain of depth d: t produces one receipt, each
\* receipt but the last reports exactly one follow-on id, executed in the
\* following block, and the last reports none.
IsChainOfDepth(t, d) ==
  LET R == OwedReceipts(t) IN
    /\ Cardinality(t.ids) = 1
    /\ Cardinality(Owed(t)) = d
    /\ Cardinality(R) = d
    /\ \E b \in Heights :
         /\ b >= t.height
         /\ {q.height : q \in R} = b .. (b + d - 1)
         /\ \A q \in R :
              /\ q.height = b => q.receipt_id \in t.ids
              /\ IF q.height = b + d - 1 THEN q.follow = {}
                 ELSE /\ Cardinality(q.follow) = 1
                      /\ \E q2 \in R : q2.height = q.height + 1 /\ q.follow = {q2.receipt_id}

AllResolved(t) == {log[i].rid : i \in EntriesOf("resolve", t.hash)} = Owed(t)

\* C4: a registered transaction whose receipts form a chain of depth D stays
\* in the open set, with no onTransaction, until the block holding the D-th
\* receipt is processed, and is completed while that block is processed.
C4_ChainDepth ==
  \A t \in ChainTxs : \A d \in 1 .. Cardinality(ChainReceipts) :
    (IsChainOfDepth(t, d) /\ EntriesOf("register", t.hash) # {}) =>
      LET hD == SetMax({q.height : q \in OwedReceipts(t)}) IN
        /\ \A i \in EntriesOf("complete", t.hash) \cup EntriesOf("onTransaction", t.hash) :
             log[i].height = hD
        /\ ~AllResolved(t) =>
             /\ t.hash \in DOMAIN pendingTransactions
             /\ EntriesOf("complete", t.hash) = {}
             /\ EntriesOf("onTransaction", t.hash) = {}
        /\ AllResolved(t) =>
             /\ t.hash \notin DOMAIN pendingTransactions
             /\ Cardinality(EntriesOf("complete", t.hash)) = 1

\* A chain of depth 2 has been resolved and its transaction completed.
C4_Witness ==
  \E t \in ChainTxs :
    /\ IsChainOfDepth(t, 2)
    /\ AllResolved(t)
    /\ EntriesOf("complete", t.hash) # {}

\* The log index of the last receipt resolved for a transaction.
LastResolve(hash) == SetMax(EntriesOf("resolve", hash))

\* t was registered in an in-range block and the last of its receipts was
\* resolved in a postfetch block.
C6_Case(t) ==
  /\ options.preprocess_transactions.set
  /\ \E i \in EntriesOf("register", t.hash) : InRequestedRange(log[i].height)
  /\ AllResolved(t)
  /\ Owed(t) # {}
  /\ InPostfetchRegion(log[LastResolve(t.hash)].height)

\* C6: with preprocessing enabled, no raw callback is invoked for a block of
\* the prefetch or the postfetch region, no transaction first seen in a
\* postfetch block is added to the open set, and a transaction registered in
\* an in-range block whose last outstanding receipt resolves in a postfetch
\* block gets onTransaction exactly once, during that postfetch block.
C6_RegionCallbacks ==
  options.preprocess_transactions.set =>
    /\ \A i \in 1 .. Len(log) :
         /\ log[i].cb \in RawHooks =>
              ~InPrefetchRegion(log[i].height) /\ ~InPostfetchRegion(log[i].height)
         /\ log[i].cb = "register" => ~InPostfetchRegion(log[i].height)
    /\ \A x \in Heights : \A t \in ChainTxs :
         (t.height = x /\ InPostfetchRegion(x)) => t.hash \notin DOMAIN pendingTransactions
    /\ \A t \in ChainTxs :
         C6_Case(t) =>
           /\ Cardinality(EntriesOf("onTransaction", t.hash)) = 1
           /\ \A i \in EntriesOf("onTransaction", t.hash) :
                log[i].height = log[LastResolve(t.hash)].height

\* A transaction registered in range was completed in a postfetch block.
C6_Witness ==
  \E t \in ChainTxs : C6_Case(t) /\ EntriesOf("onTransaction", t.hash) # {}

(***************************************************************************)
(* SpecStream: ProviderStreamer and ParallelProviderStreamer under a plain *)
(* consumer that calls stream(first, lastExclusive) and iterates the       *)
(* receiver, for every pattern of absent heights.                          *)
(***************************************************************************)
\* Requested workers are drawn from 1..MaxWorkers.
MaxWorkers == 3

MAINNET_GENESIS_BLOCK_HEIGHT == 9820210

\* defaultOptions(range)
DefaultOptions(range) ==
  [stop_on_error |-> FALSE, range |-> range, preprocess_transactions |-> NoPreprocess,
   genesis_block_height |-> MAINNET_GENESIS_BLOCK_HEIGHT]

AbsentChains ==
  {[x \in Heights |-> IF x \in A THEN AbsentMessage(x) ELSE Message(x, <<Shard(<<>>, <<>>)>>)] :
     A \in SUBSET Heights}

InitStream ==
  InitWith({DefaultOptions(r) : r \in {q \in ExplicitRanges :
                                         q.start_inclusive = 0 /\ q.end_exclusive = Undefined}},
           AbsentChains, {"Provider", "Parallel"}, 1 .. MaxWorkers, {Undefined}, "call")

\* The consumer calls streamer.stream(f, l).
StreamCall ==
  /\ pc = "call"
  /\ \E f \in 0 .. MaxStart : \E l \in {Undefined} \cup 0 .. (MaxHeight + 1) :
       /\ first' = f
       /\ lastExclusive' = l
       /\ IF streamer = "Provider" THEN ProviderStream(f, l) ELSE ParallelStream(f, l)
  /\ pc' = "iterate"
  /\ UNCHANGED <<configVars, queueVars, stepVars, predVars, saved, saves, run, hasSentPostfetchMessage, pendingTransactions,
                 receiptToTx, log, handed, err, throws>>

\* AsyncQueue.iterator: the consumer takes the value at the head of the queue.
IteratorNext ==
  /\ pc = "iterate"
  /\ queue.values # <<>>
  /\ queue' = [queue EXCEPT !.values = Tail(@)]
  /\ UNCHANGED <<configVars, queueVars, stepVars, predVars, runVars, first, lastExclusive, streamEnd, fetchH, handleDone,
                 nextToEmit, results, active, scheduled, inflight, backoff, pushed>>

\* AsyncQueue.iterator: the queue is empty and done, the iteration ends.
IteratorEnd ==
  /\ pc = "iterate"
  /\ queue.values = <<>>
  /\ queue.done
  /\ pc' = "ended"
  /\ UNCHANGED <<configVars, queueVars, stepVars, predVars, streamVars, saved, saves, run, hasSentPostfetchMessage,
                 pendingTransactions, receiptToTx, log, handed, err, throws>>

\* The steps of the fetch pipeline of either streamer.
Pipeline ==
  \/ \E x \in Heights : ParallelFetchDone(x) /\ UNCHANGED <<configVars, queueVars, stepVars, predVars, runVars>>
  \/ ProviderFetchDone /\ UNCHANGED <<configVars, queueVars, stepVars, predVars, runVars>>
  \/ \E x \in Heights : FetchFails(x) /\ UNCHANGED <<configVars, queueVars, stepVars, predVars, runVars>>
  \/ \E x \in Heights : FetchRetry(x) /\ UNCHANGED <<configVars, queueVars, stepVars, predVars, runVars>>

NextStream == StreamCall \/ IteratorNext \/ IteratorEnd \/ Pipeline

SpecStream == InitStream /\ [][NextStream]_vars

\* C1: the heights of the messages ParallelProviderStreamer pushes to the
\* consumer are strictly increasing, whatever the order in which the fetches
\* complete and however often they are retried.
C1_StrictlyIncreasing ==
  streamer = "Parallel" =>
    \A i \in 1 .. Len(pushed) : \A j \in 1 .. Len(pushed) : i < j => pushed[i] < pushed[j]

\* Two workers or more, two messages delivered, and a later fetch completed
\* and buffered while an earlier one is still awaited.
C1_Witness ==
  /\ streamer = "Parallel"
  /\ workers >= 2
  /\ Len(pushed) >= 2
  /\ DOMAIN results # {}
  /\ backoff # {}

\* The heights of [first, lastExclusive) at which the source has a message.
PresentInRange == {x \in Heights : first <= x /\ x < lastExclusive /\ chain[x].present}

\* C2: once the pipeline has closed the stream over a bounded range, the
\* delivered heights are exactly the heights of the range at which the source
\* returned a message, in increasing order; an absent height is never
\* delivered.
C2_DeliveredExactly ==
  /\ \A i \in 1 .. Len(pushed) : chain[pushed[i]].present
  /\ (queue.done /\ lastExclusive # Undefined) =>
       /\ SeqToSet(pushed) = PresentInRange
       /\ Len(pushed) = Cardinality(PresentInRange)

\* The parallel stream is closed, and a message was delivered from a height
\* above an absent height of the range.
C2_Witness ==
  /\ streamer = "Parallel"
  /\ queue.done
  /\ lastExclusive # Undefined
  /\ \E x \in Heights : \E i \in 1 .. Len(pushed) :
       first <= x /\ ~chain[x].present /\ x < pushed[i]

(***************************************************************************)
(* SpecPipe: runIndexer on each of the three streamers, over explicit      *)
(* ranges that end within the heights the source serves.  The event loop   *)
(* runs every continuation that stays ready, and a fetch that keeps being  *)
(* retried is eventually answered.                                         *)
(***************************************************************************)
\* Requested ends of a piped run are drawn from 0..MaxPipeEnd.
MaxPipeEnd == 2
\* The workers of a piped run are drawn from 1..MaxPipeWorkers.
MaxPipeWorkers == 2

PipeOptions ==
  {o \in IndexerOptions(ExplicitRanges,
                        {NoPreprocess,
                         [set |-> TRUE, prefetch_blocks |-> 1, postfetch_blocks |-> 1]}) :
     /\ o.genesis_block_height = 0
     /\ o.range.start_inclusive <= 1
     /\ o.range.end_exclusive <= MaxPipeEnd}

PipeChains == {PlainChain(a) : a \in {Undefined, 1}}

InitPipe ==
  InitWith(PipeOptions, PipeChains, {"Neardata", "Provider", "Parallel"},
           1 .. MaxPipeWorkers, {Undefined}, "start")

\* for await (const message of receiver): the loop takes the message at the
\* head of the queue and processes it.
Receive ==
  /\ LoopReady
  /\ streamer # "Neardata"
  /\ queue.values # <<>>
  /\ queue' = [queue EXCEPT !.values = Tail(@)]
  /\ \E throwAt \in ThrowChoices(chain[Head(queue.values)]) :
       LoopBody(chain[Head(queue.values)], throwAt)
  /\ UNCHANGED <<configVars, queueVars, stepVars, predVars, first, lastExclusive, streamEnd, fetchH, handleDone, nextToEmit,
                 results, active, scheduled, inflight, backoff, pushed>>

\* The queue is empty and closed: the receiver is exhausted, the loop ends.
ReceiveEnd ==
  /\ LoopReady
  /\ streamer # "Neardata"
  /\ queue.values = <<>>
  /\ queue.done
  /\ pc' = "finally"
  /\ UNCHANGED <<configVars, queueVars, stepVars, predVars, streamVars, saved, saves, run, hasSentPostfetchMessage,
                 pendingTransactions, receiptToTx, log, handed, err, throws>>

\* A fetch of either queue-backed streamer is answered.
FetchDone ==
  /\ (\E x \in Heights : ParallelFetchDone(x)) \/ ProviderFetchDone
  /\ UNCHANGED <<configVars, queueVars, stepVars, predVars, runVars>>

\* The backoff timer of a failed fetch fires.
BackoffEnds ==
  /\ \E x \in Heights : FetchRetry(x)
  /\ UNCHANGED <<configVars, queueVars, stepVars, predVars, runVars>>

NextPipe ==
  Start \/ GenNext \/ GenFetchFails \/ GenEnd \/ Receive \/ ReceiveEnd \/ Pipeline \/ Finally

PipeFairness ==
  /\ WF_vars(Start)
  /\ WF_vars(GenNext \/ GenEnd)
  /\ WF_vars(Receive \/ ReceiveEnd)
  /\ WF_vars(Finally)
  /\ WF_vars(BackoffEnds)
  /\ SF_vars(FetchDone)

SpecPipe == InitPipe /\ [][NextPipe]_vars /\ PipeFairness

FinalizeCalls == Cardinality({i \in 1 .. Len(log) : log[i].cb = "finalize"})

\* The loop has been left, or it iterates a stream over a bounded range.
RunEnds == pc = "finally" \/ (pc = "loop" /\ lastExclusive # Undefined)

\* C7: every run of runIndexer invokes finalize exactly once: never twice,
\* and eventually once the loop has been left (the stream ended or a failure
\* aborted it) or the stream is over a bounded range, for each streamer.
C7_FinalizeOnce == [](FinalizeCalls <= 1) /\ (RunEnds ~> (FinalizeCalls = 1))

\* The heights of the fetch window at which the source has a message.
PresentInWindow == {x \in Heights : first <= x /\ x < streamEnd /\ chain[x].present}

C11_FailuresRetried ==
  /\ streamer \in {"Provider", "Parallel"} => ~(err.set /\ err.kind = "fetch")
  /\ (streamer = "Parallel" /\ pc # "start") =>
       \A x \in Heights :
         (first <= x /\ x < scheduled) =>
           IF x < nextToEmit
           THEN chain[x].present => x \in SeqToSet(pushed)
           ELSE x \in inflight \cup backoff \cup DOMAIN results
  /\ (streamer = "Provider" /\ pc # "start") =>
       /\ \A x \in Heights :
            (first <= x /\ x < fetchH /\ chain[x].present) => x \in SeqToSet(pushed)
       /\ (fetchH < streamEnd /\ fetchH \in Heights) => fetchH \in inflight \cup backoff

\* A fetch of the parallel streamer has failed and waits for its retry while
\* the result of a later height is already buffered and an earlier height
\* was delivered.
C11_Witness ==
  /\ streamer = "Parallel"
  /\ \E x \in backoff : \E y \in DOMAIN results : x < y
  /\ pushed # <<>>

\* C12: over every bounded range, the empty one included, with every fetch
\* eventually answered, ParallelProviderStreamer eventually closes the stream.
C12_ParallelCloses ==
  (streamer = "Parallel" /\ pc = "loop" /\ lastExclusive # Undefined) ~> queue.done

(***************************************************************************)
(* SpecQueue: one AsyncQueue with its fields kept apart, one producer that *)
(* pushes the items 1, 2, ... and closes at any moment, and one consumer   *)
(* iterating iterator().  A resolver is named by the promise it settles;   *)
(* settled maps a promise to the IteratorResult it was resolved with.      *)
(***************************************************************************)
\* The producer makes at most MaxItems push calls.
MaxItems == 4

\* A faulty push: a value handed to a waiting consumer is also queued.
AsyncQueuePush_AlsoQueues(a, v) ==
  IF a.done THEN a
  ELSE IF a.resolvers # <<>>
       THEN [a EXCEPT !.resolvers = Tail(@),
                      !.settled = [p \in DOMAIN @ \cup {Head(a.resolvers)} |->
                                     IF p = Head(a.resolvers)
                                     THEN [value |-> v, done |-> FALSE] ELSE @[p]],
                      !.values = Append(@, v)]
       ELSE [a EXCEPT !.values = Append(@, v)]

\* push(v)
AsyncQueuePush(a, v) ==
  IF a.done THEN a
  ELSE IF a.resolvers # <<>>
       THEN [a EXCEPT !.resolvers = Tail(@),
                      !.settled = [p \in DOMAIN @ \cup {Head(a.resolvers)} |->
                                     IF p = Head(a.resolvers)
                                     THEN [value |-> v, done |-> FALSE] ELSE @[p]]]
       ELSE [a EXCEPT !.values = Append(@, v)]

\* close()
AsyncQueueClose(a) ==
  [a EXCEPT !.done = TRUE,
            !.settled = [p \in DOMAIN @ \cup SeqToSet(a.resolvers) |->
                           IF p \in SeqToSet(a.resolvers)
                           THEN [value |-> 0, done |-> TRUE] ELSE @[p]],
            !.resolvers = <<>>]

InitQueue ==
  InitWith({DefaultOptions(r) : r \in {q \in ExplicitRanges :
                                         q.start_inclusive = 0 /\ q.end_exclusive = Undefined}},
           {PlainChain(Undefined)}, {"Provider"}, {1}, {Undefined}, "queue")

\* The producer calls push with the next item.
ProducerPush ==
  /\ pc = "queue"
  /\ produced < MaxItems
  /\ aq' = AsyncQueuePush(aq, produced + 1)
  /\ sent' = IF aq.done THEN sent ELSE Append(sent, produced + 1)
  /\ produced' = produced + 1
  /\ UNCHANGED <<configVars, stepVars, predVars, runVars, streamVars, cpc, awaited, received>>

\* The producer calls close.
ProducerClose ==
  /\ pc = "queue"
  /\ ~aq.done
  /\ aq' = AsyncQueueClose(aq)
  /\ UNCHANGED <<configVars, stepVars, predVars, runVars, streamVars, cpc, awaited, received, sent, produced>>

\* iterator(), from the top of its loop to its next yield, return or await.
ConsumerNext ==
  /\ pc = "queue"
  /\ cpc = "top"
  /\ IF aq.values # <<>>
     THEN /\ aq' = [aq EXCEPT !.values = Tail(@)]
          /\ received' = Append(received, Head(aq.values))
          /\ UNCHANGED <<cpc, awaited>>
     ELSE IF aq.done
          THEN /\ cpc' = "ended"
               /\ UNCHANGED <<aq, awaited, received>>
          ELSE /\ aq' = [aq EXCEPT !.resolvers = Append(@, awaited + 1)]
               /\ awaited' = awaited + 1
               /\ cpc' = "await"
               /\ UNCHANGED received
  /\ UNCHANGED <<configVars, stepVars, predVars, runVars, streamVars, sent, produced>>

\* The awaited promise is settled: iterator() returns or yields its value.
ConsumerResume ==
  /\ pc = "queue"
  /\ cpc = "await"
  /\ awaited \in DOMAIN aq.settled
  /\ IF aq.settled[awaited].done
     THEN /\ cpc' = "ended"
          /\ UNCHANGED received
     ELSE /\ cpc' = "top"
          /\ received' = Append(received, aq.settled[awaited].value)
  /\ UNCHANGED <<configVars, stepVars, predVars, runVars, streamVars, aq, awaited, sent, produced>>

NextQueue == ProducerPush \/ ProducerClose \/ ConsumerNext \/ ConsumerResume

SpecQueue == InitQueue /\ [][NextQueue]_vars

\* sq is the first Len(sq) items of full.
IsPrefix(sq, full) == Len(sq) <= Len(full) /\ \A i \in 1 .. Len(sq) : sq[i] = full[i]

C14_PipelineDoneAtFinalize ==
  FinalizeCalls >= 1 =>
    /\ inflight = {}
    /\ backoff = {}
    /\ streamer = "Parallel" => active = 0

(***************************************************************************)
(* SpecLoad: runIndexer on a NeardataProvider over auto-continue ranges,   *)
(* load() returning a height, returning nothing, or rejecting.             *)
(***************************************************************************)
InitLoad ==
  InitWith({o \in IndexerOptions(AutoContinueRanges, PreprocessSettings) :
              o.genesis_block_height = 0},
           PlainChains, {"Neardata"}, {1}, SavedSet \cup {LoadFails}, "start")

NextLoad == Next \/ StartLoadFails

SpecLoad == InitLoad /\ [][NextLoad]_vars

\* C15: with an auto-continue range and load() failing, runIndexer does not
\* fail because of it and the run starts at the caller-supplied default
\* start height, as when load() returns no value.
C15_LoadFailureIsUnset ==
  (options.range.kind = "AutoContinue" /\ saved = LoadFails /\ pc # "start") =>
    /\ ~(err.set /\ err.kind = "load")
    /\ run.start_block_height = options.range.start_height_if_does_not_exist

(***************************************************************************)
(* Runs without preprocessing (checked under SpecCorr).                    *)
(***************************************************************************)
\* The log has an entry of hook cb at height x about transaction tx and
\* receipt rid.
Logged(cb, x, tx, rid) ==
  \E i \in 1 .. Len(log) :
    log[i].cb = cb /\ log[i].height = x /\ log[i].tx = tx /\ log[i].rid = rid

\* A callback failed while the block at height x was processed.
ThrewAt(x) == \E i \in 1 .. Len(log) : log[i].threw /\ log[i].height = x

\* C16: with preprocess_transactions not configured, onReceipt and
\* onTransaction are never invoked, the receipt index and the open set stay
\* empty, and for every delivered height of the requested range processBlock
\* is invoked and, unless a callback fails in that block, processTransaction
\* for each of its transactions and processReceipt for each of its receipts.
C16_NoPreprocess ==
  ~options.preprocess_transactions.set =>
    /\ \A i \in 1 .. Len(log) :
         log[i].cb \notin {"onReceipt", "onTransaction", "register", "resolve", "complete"}
    /\ DOMAIN pendingTransactions = {}
    /\ DOMAIN receiptToTx = {}
    /\ \A k \in 1 .. Len(handed) :
         LET x == handed[k].height IN
           InRequestedRange(x) =>
             /\ Logged("processBlock", x, "", 0)
             /\ ~ThrewAt(x) =>
                  /\ \A t \in ChainTxs : t.height = x => Logged("processTransaction", x, t.hash, 0)
                  /\ \A q \in ChainReceipts :
                       q.height = x => Logged("processReceipt", x, "", q.receipt_id)

\* Without preprocessing, a block of the requested range holding a
\* transaction and a receipt of it was delivered and both raw callbacks were
\* invoked for it.
C16_Witness ==
  /\ ~options.preprocess_transactions.set
  /\ \E k \in 1 .. Len(handed) :
       LET x == handed[k].height IN
         /\ InRequestedRange(x)
         /\ \E t \in ChainTxs : t.height = x /\ Logged("processTransaction", x, t.hash, 0)
         /\ \E q \in ChainReceipts :
              q.height = x /\ q.receipt_id \in Owed(CHOOSE t \in ChainTxs : TRUE)
                /\ Logged("processReceipt", x, "", q.receipt_id)

(***************************************************************************)
(* SpecOrder: runIndexer on a NeardataProvider with preprocessing, over    *)
(* chains whose transaction names its receipts in one order while they are *)
(* executed in that order or in the reverse one.                           *)
(***************************************************************************)
\* T1 at height th names the receipts 1..n; receipt n + 1 - k is executed at
\* height th + off + k - 1 and reports no follow-on id.
ReversedTxChain(th, n, off) ==
  [h \in Heights |->
     Message(h, <<Shard(
       IF h = th THEN <<Transaction("T1", [k \in 1 .. n |-> k])>> ELSE <<>>,
       IF h - th - off + 1 \in 1 .. n
       THEN <<ReceiptOutcome(n - (h - th - off), "SuccessValue", <<>>)>>
       ELSE <<>>)>>)]

OrderChains ==
  {ReversedTxChain(th, n, off) : th \in Heights, n \in 1 .. MaxReceipts, off \in 0 .. 1}
    \cup {OneTxChain(th, n, "flat", off, Undefined) :
            th \in Heights, n \in 1 .. MaxReceipts, off \in 0 .. 1}

OrderOptions ==
  {o \in CorrOptions : o.preprocess_transactions.set /\ o.range.start_inclusive = 0}

InitOrder == InitWith(OrderOptions, OrderChains, {"Neardata"}, {1}, {Undefined}, "start")

SpecOrder == InitOrder /\ [][Next]_vars

\* The log index at which receipt rid of transaction hash was resolved.
ResolvedAt(hash, rid) ==
  CHOOSE i \in EntriesOf("resolve", hash) : log[i].rid = rid

\* C17: the receipts list passed to onTransaction is in resolution order:
\* receipt a precedes receipt b in it whenever a was resolved before b.
C17_ResolutionOrder ==
  \A i \in 1 .. Len(log) :
    log[i].cb = "onTransaction" =>
      \A a \in 1 .. Len(log[i].receipts) : \A b \in 1 .. Len(log[i].receipts) :
        ResolvedAt(log[i].tx, log[i].receipts[a].receipt_id)
          < ResolvedAt(log[i].tx, log[i].receipts[b].receipt_id) => a < b

(***************************************************************************)
(* SpecStatus: the success predicates of a resolved receipt and of a       *)
(* completed transaction, on every list of up to MaxStatuses receipt       *)
(* statuses and either default.                                            *)
(***************************************************************************)
\* A completed transaction has at most MaxStatuses receipts.
MaxStatuses == 3

\* ExecutionStatusView.kind
StatusKinds == {"Failure", "SuccessValue", "SuccessReceiptId", "Unknown"}

\* isReceiptSuccessful(receipt): boolean | undefined
IsReceiptSuccessful(status) ==
  CASE status = "Failure" -> "false"
    [] status \in {"SuccessValue", "SuccessReceiptId"} -> "true"
    [] OTHER -> "undefined"

\* DefaultTransactionReceipt.isSuccessful(ifUnknown)
DefaultIsSuccessful(status, d) ==
  IF IsReceiptSuccessful(status) = "undefined" THEN d ELSE IsReceiptSuccessful(status) = "true"

\* isSuccessful(ifUnknown) of the receipt processBlock builds
IsSuccessful(status, d) ==
  CASE status = "Failure" -> FALSE
    [] status \in {"SuccessValue", "SuccessReceiptId"} -> TRUE
    [] OTHER -> d

\* A faulty aggregate: an unknown status counts as a failure.
AllReceiptsSuccessful_UnknownFails(sts) ==
  \A i \in 1 .. Len(sts) : IsSuccessful(sts[i], FALSE)

\* allReceiptsSuccessful(): this.receipts.every((r) => r.isSuccessful(true))
AllReceiptsSuccessful(sts) == \A i \in 1 .. Len(sts) : IsSuccessful(sts[i], TRUE)

InitStatus ==
  InitWith({DefaultOptions(r) : r \in {q \in ExplicitRanges :
                                         q.start_inclusive = 0 /\ q.end_exclusive = Undefined}},
           {PlainChain(Undefined)}, {"Provider"}, {1}, {Undefined}, "status")

\* A transaction completes with receipts of the statuses sts, and its
\* observer will pass d to isSuccessful.
Completes ==
  /\ pc = "status"
  /\ \E n \in 0 .. MaxStatuses : \E sts \in [1 .. n -> StatusKinds] : \E d \in BOOLEAN :
       /\ statuses' = sts
       /\ ifUnknown' = d
  /\ pc' = "verdict"
  /\ UNCHANGED <<configVars, queueVars, stepVars, streamVars, verdict, saved, saves, run,
                 hasSentPostfetchMessage, pendingTransactions, receiptToTx, log, handed, err,
                 throws>>

\* The observer evaluates the predicates.
Evaluates ==
  /\ pc = "verdict"
  /\ ~verdict.set
  /\ verdict' = [set |-> TRUE,
                 each |-> [i \in 1 .. Len(statuses) |-> IsSuccessful(statuses[i], ifUnknown)],
                 byDefault |-> [i \in 1 .. Len(statuses) |->
                                  DefaultIsSuccessful(statuses[i], ifUnknown)],
                 all |-> AllReceiptsSuccessful(statuses)]
  /\ UNCHANGED <<configVars, queueVars, stepVars, runVars, streamVars, statuses, ifUnknown>>

NextStatus == Completes \/ Evaluates

SpecStatus == InitStatus /\ [][NextStatus]_vars

\* What the specification requires of the success predicate.
ExpectedSuccess(status, d) ==
  IF status = "Failure" THEN FALSE
  ELSE IF status = "Unknown" THEN d
  ELSE TRUE

\* C18: the success predicate of a resolved receipt is false for Failure,
\* true for SuccessValue and SuccessReceiptId and the caller's default for
\* Unknown; allReceiptsSuccessful is true iff no receipt of the list has
\* status Failure.
C18_SuccessPredicates ==
  verdict.set =>
    /\ \A i \in 1 .. Len(statuses) :
         /\ verdict.each[i] = ExpectedSuccess(statuses[i], ifUnknown)
         /\ verdict.byDefault[i] = ExpectedSuccess(statuses[i], ifUnknown)
    /\ verdict.all = (\A i \in 1 .. Len(statuses) : statuses[i] # "Failure")

\* The predicates were evaluated with default false on a list holding an
\* Unknown receipt and no Failure, and the aggregate is true.
C18_Witness ==
  /\ verdict.set
  /\ ~ifUnknown
  /\ \E i \in 1 .. Len(statuses) : statuses[i] = "Unknown" /\ ~verdict.each[i]
  /\ \A i \in 1 .. Len(statuses) : statuses[i] # "Failure"
  /\ verdict.all

(***************************************************************************)
(* SpecSteps: the loop of runIndexer at the grain of its awaits.  Each     *)
(* callback of a block is a call and, later, its completion; the cursor    *)
(* save is a step of its own; the pipeline of the streamer keeps fetching  *)
(* and pushing between any two of them.  events records what the loop did. *)
(***************************************************************************)
\* Requested ends of a stepped run are drawn from 1..MaxStepEnd.
MaxStepEnd == 3

StepOptions ==
  {o \in IndexerOptions(ExplicitRanges \cup AutoContinueRanges, {NoPreprocess}) :
     /\ o.genesis_block_height = 0
     /\ IF o.range.kind = "Range"
        THEN /\ o.range.start_inclusive <= 1
             /\ o.range.end_exclusive \in 1 .. MaxStepEnd
        ELSE /\ o.range.start_height_if_does_not_exist = 0
             /\ o.range.end.kind = "Height"
             /\ o.range.end.height \in 1 .. MaxStepEnd}

StepChains == PipeChains \cup {OneTxChain(0, 1, "flat", 0, Undefined)}

InitSteps ==
  InitWith(StepOptions, StepChains, {"Provider", "Parallel"}, 1 .. MaxPipeWorkers,
           {Undefined, 1}, "start")

Event(kind, cb, height) == [kind |-> kind, cb |-> cb, height |-> height]

\* The callbacks processBlock invokes on the message, in order, up to the one
\* that throws.
BlockCalls(message, throwAt) ==
  SelectSeq(ProcessBlockOp(pendingTransactions, receiptToTx, message,
                           ProcessingOptions(message.height, options.preprocess_transactions,
                                             InRange(message.height, run.prefetchRange),
                                             InRange(message.height, run.postfetchRange)),
                           throwAt).log,
            LAMBDA e : e.cb \in IndexerHooks)

\* The loop takes the message at the head of the queue and enters the body.
ReceiveStart ==
  /\ LoopReady
  /\ streamer # "Neardata"
  /\ queue.values # <<>>
  /\ queue' = [queue EXCEPT !.values = Tail(@)]
  /\ LET message == chain[Head(queue.values)]
     IN /\ \E throwAt \in ThrowChoices(message) :
             /\ cur' = [NoBlock EXCEPT !.set = TRUE, !.height = message.height,
                                       !.throwAt = throwAt]
             /\ todo' = BlockCalls(message, throwAt)
        /\ events' = Append(events, Event("start", "", message.height))
  /\ UNCHANGED <<configVars, queueVars, predVars, runVars, first, lastExclusive, streamEnd,
                 fetchH, handleDone, nextToEmit, results, active, scheduled, inflight,
                 backoff, pushed>>

\* await indexer.<cb>(...): processBlock invokes its next callback and
\* suspends on the promise it returns.
CallbackCall ==
  /\ pc = "loop"
  /\ cur.set /\ cur.phase = "calls" /\ ~cur.awaiting
  /\ todo # <<>>
  /\ cur' = [cur EXCEPT !.awaiting = TRUE]
  /\ events' = Append(events, Event("call", Head(todo).cb, Head(todo).height))
  /\ UNCHANGED <<configVars, queueVars, predVars, runVars, streamVars, todo>>

\* The promise of the callback settles: processBlock resumes.
CallbackReturn ==
  /\ pc = "loop"
  /\ cur.set /\ cur.phase = "calls" /\ cur.awaiting
  /\ todo # <<>>
  /\ cur' = [cur EXCEPT !.awaiting = FALSE]
  /\ todo' = Tail(todo)
  /\ events' = Append(events, Event("return", Head(todo).cb, Head(todo).height))
  /\ UNCHANGED <<configVars, queueVars, predVars, runVars, streamVars>>

\* processBlock settles: the try block of the iteration is over; a rethrown
\* error leaves the loop, otherwise afterBlock is next.
BlockEnd ==
  /\ pc = "loop"
  /\ cur.set /\ cur.phase = "calls" /\ ~cur.awaiting
  /\ todo = <<>>
  /\ LoopProcess(chain[cur.height], cur.throwAt)
  /\ cur' = IF pc' = "finally"
            THEN NoBlock
            ELSE [cur EXCEPT !.phase = "after",
                             !.save = SaveDue(chain[cur.height], cur.throwAt)]
  /\ events' = IF pc' = "finally"
               THEN Append(events, Event("end", "", cur.height))
               ELSE events
  /\ UNCHANGED <<configVars, queueVars, predVars, streamVars, saved, saves, todo>>

\* await post_processor.afterBlock(height) settles: the iteration is over.
AfterBlock ==
  /\ pc = "loop"
  /\ cur.set /\ cur.phase = "after"
  /\ LoopSave(chain[cur.height], cur.save)
  /\ cur' = NoBlock
  /\ events' = IF cur.save
               THEN events \o <<Event("save", "", cur.height), Event("end", "", cur.height)>>
               ELSE Append(events, Event("end", "", cur.height))
  /\ UNCHANGED <<configVars, queueVars, predVars, streamVars, run, hasSentPostfetchMessage,
                 pendingTransactions, receiptToTx, log, handed, err, throws, pc, todo>>

NextSteps ==
  Start \/ ReceiveStart \/ CallbackCall \/ CallbackReturn \/ BlockEnd \/ AfterBlock
    \/ ReceiveEnd \/ Pipeline \/ Finally

SpecSteps == InitSteps /\ [][NextSteps]_vars

\* C19: the loop never starts on the message of the next height before every
\* callback invoked for the current height has completed and its cursor save
\* is done: a callback is invoked only after the previous one has settled,
\* between callbacks of two different heights the iteration of the earlier
\* one has ended (its save, when one was made, before that), and callbacks
\* are issued in strictly increasing height order.
C19_HeightsDoNotInterleave ==
  /\ \A i \in 1 .. Len(events) :
       /\ (events[i].kind = "call" /\ i < Len(events)) =>
            events[i + 1] = Event("return", events[i].cb, events[i].height)
       /\ events[i].kind = "save" =>
            (i < Len(events) /\ events[i + 1] = Event("end", "", events[i].height))
  /\ \A i, j \in 1 .. Len(events) :
       (/\ i < j
        /\ events[i].kind \in {"start", "call", "return"}
        /\ events[j].kind \in {"start", "call"}
        /\ events[i].height # events[j].height) =>
         /\ events[i].height < events[j].height
         /\ \E k \in i + 1 .. j - 1 : events[k] = Event("end", "", events[i].height)

\* A callback of the second block of a run is suspended while the streamer
\* has already queued a later message, the cursor of the first block saved.
C19_Witness ==
  /\ cur.set /\ cur.awaiting
  /\ queue.values # <<>>
  /\ \E i, j \in 1 .. Len(events) :
       /\ i < j
       /\ events[i].kind = "save"
       /\ events[j].kind = "call"
       /\ events[i].height < events[j].height

(***************************************************************************)
(* SpecOpen: runIndexer on a NeardataProvider with preprocessing, over     *)
(* chains whose transaction reports 0..MaxReceipts initial receipt ids.    *)
(***************************************************************************)
OpenChains ==
  {OneTxChain(th, n, "flat", off, Undefined) :
     th \in Heights, n \in 0 .. MaxReceipts, off \in 0 .. 1}

InitOpen == InitWith(OrderOptions, OpenChains, {"Neardata"}, {1}, {Undefined}, "start")

SpecOpen == InitOpen /\ [][Next]_vars

\* C20: at the end of every processBlock call, every transaction still in
\* the open set has at least one unresolved entry in its receipt mapping,
\* whatever the number (>= 0) of initial receipt ids it was registered with.
C20_OpenHasUnresolved ==
  \A hash \in DOMAIN pendingTransactions :
    \E i \in 1 .. Len(pendingTransactions[hash].receipts) :
      ~pendingTransactions[hash].receipts[i].v.resolved

(***************************************************************************)
(* SpecFollow: runIndexer on a NeardataProvider with preprocessing, over   *)
(* chains in which a receipt reports follow-on ids: new ones, and one the  *)
(* owner's mapping already holds resolved.                                 *)
(***************************************************************************)
\* T1 at height th names the receipts 1 and 2.  Receipt 2 is executed at
\* height th + off and reports nothing; receipt 1 is executed in the next
\* block and reports the ids 2 and 3; receipt 3 is executed in the block
\* after that.
BackRefChain(th, off) ==
  [h \in Heights |->
     Message(h, <<Shard(
       IF h = th THEN <<Transaction("T1", <<1, 2>>)>> ELSE <<>>,
       IF h = th + off THEN <<ReceiptOutcome(2, "SuccessValue", <<>>)>>
       ELSE IF h = th + off + 1 THEN <<ReceiptOutcome(1, "SuccessValue", <<2, 3>>)>>
       ELSE IF h = th + off + 2 THEN <<ReceiptOutcome(3, "SuccessValue", <<>>)>>
       ELSE <<>>)>>)]

FollowChains ==
  {BackRefChain(th, off) : th \in Heights, off \in 0 .. 1}
    \cup {OneTxChain(th, n, "chain", off, Undefined) :
            th \in Heights, n \in 1 .. MaxReceipts, off \in 0 .. 1}

InitFollow == InitWith(OrderOptions, FollowChains, {"Neardata"}, {1}, {Undefined}, "start")

SpecFollow == InitFollow /\ [][Next]_vars

\* The receipt of the chain executed at height x with the id rid.
ChainReceiptAt(x, rid) == CHOOSE q \in ChainReceipts : q.height = x /\ q.receipt_id = rid

\* C21: when a correlated receipt is resolved, every follow-on id it reports
\* points at the same owning hash in the index and is a key of the owner's
\* mapping, added as unresolved only if absent: an id the mapping holds
\* resolved stays resolved, a key is held once, and the owner is completed
\* only once every follow-on id has been resolved too.
C21_FollowOnsAbsorbed ==
  \A i \in 1 .. Len(log) :
    log[i].cb = "resolve" =>
      LET hash == log[i].tx
          q == ChainReceiptAt(log[i].height, log[i].rid)
      IN /\ \A f \in q.follow : f \in DOMAIN receiptToTx /\ receiptToTx[f] = hash
         /\ hash \in DOMAIN pendingTransactions =>
              LET m == pendingTransactions[hash].receipts
              IN /\ \A a, b \in 1 .. Len(m) : m[a].k = m[b].k => a = b
                 /\ \E a \in 1 .. Len(m) : m[a].k = log[i].rid /\ m[a].v.resolved
                 /\ \A f \in q.follow : MapHas(m, f)
         /\ \A j \in EntriesOf("complete", hash) :
              j > i => \A f \in q.follow :
                         \E k \in EntriesOf("resolve", hash) : k < j /\ log[k].rid = f

\* A receipt was resolved that reports an id resolved before it and an id
\* resolved after it, and its owner has been completed.
C21_Witness ==
  \E i \in 1 .. Len(log) :
    /\ log[i].cb = "resolve"
    /\ EntriesOf("complete", log[i].tx) # {}
    /\ LET q == ChainReceiptAt(log[i].height, log[i].rid)
       IN /\ \E f \in q.follow :
               \E k \in EntriesOf("resolve", log[i].tx) : k < i /\ log[k].rid = f
          /\ \E f \in q.follow :
               \E k \in EntriesOf("resolve", log[i].tx) : k > i /\ log[k].rid = f

\* C22: the key set of the Receipt Ownership Index never shrinks, not even
\* when the owning transaction is completed; and after a block was processed
\* with preprocess on and without a failing callback, every initial receipt
\* id of each of its transactions and every follow-on id of each receipt
\* correlated so far is a key of the index.
C22_IndexGrows ==
  /\ [][DOMAIN receiptToTx \subseteq DOMAIN receiptToTx']_vars
  /\ [](/\ \A k \in 1 .. Len(handed) :
            (/\ handed[k].preprocess
             /\ ~ThrewAt(handed[k].height)) =>
              \A t \in ChainTxs :
                t.height = handed[k].height => t.ids \subseteq DOMAIN receiptToTx
        /\ \A i \in 1 .. Len(log) :
            log[i].cb = "resolve" =>
              ChainReceiptAt(log[i].height, log[i].rid).follow \subseteq DOMAIN receiptToTx)

\* A transaction whose receipts reported follow-on ids has been completed
\* and removed from the open set, and the index still holds all its ids.
C22_Witness ==
  \E t \in ChainTxs :
    /\ EntriesOf("complete", t.hash) # {}
    /\ t.hash \notin DOMAIN pendingTransactions
    /\ Owed(t) # t.ids
    /\ Owed(t) \subseteq DOMAIN receiptToTx

(***************************************************************************)
(* SpecOrphan: runIndexer on a NeardataProvider over every explicit range  *)
(* and preprocess setting, the chains holding receipts that are executed   *)
(* before, inside or after the window in which their transaction is seen.  *)
(***************************************************************************)
OrphanChains ==
  {OneTxChain(th, 1, "flat", off, Undefined) : th \in Heights, off \in 0 .. 1}
    \cup {OneTxChain(th, 2, "chain", 0, Undefined) : th \in Heights}

InitOrphan == InitWith(CorrOptions, OrphanChains, {"Neardata"}, {1}, {Undefined}, "start")

SpecOrphan == InitOrphan /\ [][Next]_vars

\* The step is an iteration of the loop on the message of height fetchH.
ProcessesBlock == pc = "loop" /\ Len(handed') = Len(handed) + 1

\* What the iteration appended to the log.
NewEntries == SubSeq(log', Len(log) + 1, Len(log'))

\* The keys of the index, and the hashes of the open set, once the
\* transactions of the message were processed under the flags o.
KeysAfterTransactions(message, o) ==
  DOMAIN receiptToTx \cup
    (IF o.preprocess THEN UNION {t.ids : t \in {u \in ChainTxs : u.height = message.height}}
     ELSE {})

OpenAfterTransactions(message, o) ==
  DOMAIN pendingTransactions \cup
    (IF o.preprocess /\ o.preprocess_new_transactions
     THEN {t.hash : t \in {u \in ChainTxs : u.height = message.height}}
     ELSE {})

\* The receipt is not correlated: its id is not in the index, or its owner
\* has no Open Transaction.
Uncorrelated(q, message, o) ==
  \/ q.receipt_id \notin KeysAfterTransactions(message, o)
  \/ \A t \in ChainTxs :
       q.receipt_id \in Owed(t) => t.hash \notin OpenAfterTransactions(message, o)

\* C23: a receipt whose id is not in the Receipt Ownership Index, or whose
\* owner has no Open Transaction, triggers neither onReceipt nor
\* onTransaction and leaves the index and the open set as the transactions
\* of its block left them; the raw processReceipt callback is made for it
\* exactly when emit-raw (handle_raw_events) is set.  Stated for the blocks
\* in which no callback fails.
C23_UncorrelatedReceipt ==
  [][(/\ ProcessesBlock
      /\ \A i \in 1 .. Len(NewEntries) : ~NewEntries[i].threw) =>
       LET message == chain[fetchH]
           o == handed'[Len(handed')]
       IN \A q \in ChainReceipts :
            (q.height = message.height /\ Uncorrelated(q, message, o)) =>
              /\ \A i \in 1 .. Len(NewEntries) :
                   NewEntries[i].cb \notin {"onReceipt", "onTransaction", "resolve", "complete"}
              /\ DOMAIN receiptToTx' = KeysAfterTransactions(message, o)
              /\ \A k \in DOMAIN receiptToTx : receiptToTx'[k] = receiptToTx[k]
              /\ DOMAIN pendingTransactions' = OpenAfterTransactions(message, o)
              /\ \A h \in DOMAIN pendingTransactions :
                   pendingTransactions'[h] = pendingTransactions[h]
              /\ o.handle_raw_events <=>
                   \E i \in 1 .. Len(NewEntries) :
                     /\ NewEntries[i].cb = "processReceipt"
                     /\ NewEntries[i].rid = q.receipt_id]_vars

\* With preprocessing on, the raw callback was made for a receipt whose
\* transaction lies before the fetch window: its id is not in the index.
C23_Witness ==
  /\ options.preprocess_transactions.set
  /\ \E q \in ChainReceipts :
       /\ q.receipt_id \notin DOMAIN receiptToTx
       /\ Logged("processReceipt", q.height, "", q.receipt_id)
       /\ \A i \in 1 .. Len(log) :
            log[i].height = q.height => log[i].cb \notin {"onReceipt", "onTransaction"}

\* The log entries before position i of a kind about a transaction.
EntriesBefore(cb, hash, i) == {k \in EntriesOf(cb, hash) : k < i}

\* C24: onReceipt is invoked before the receipt is marked resolved: when it
\* is called, the owner has been registered and not completed, the owner's
\* mapping knows the receipt's id (an initial id or a follow-on id reported
\* by a receipt resolved earlier) and has not resolved it, and the receipt is
\* marked resolved right after a call that returns; the onReceipt of the
\* last receipt of a transaction precedes the transaction's onTransaction.
C24_OnReceiptFirst ==
  /\ \A i \in 1 .. Len(log) :
       log[i].cb = "onReceipt" =>
         LET hash == log[i].tx
             rid == log[i].rid
         IN /\ EntriesBefore("register", hash, i) # {}
            /\ EntriesBefore("complete", hash, i) = {}
            /\ \A k \in EntriesBefore("resolve", hash, i) : log[k].rid # rid
            /\ \E t \in ChainTxs :
                 /\ t.hash = hash
                 /\ \/ rid \in t.ids
                    \/ \E k \in EntriesBefore("resolve", hash, i) :
                         rid \in ChainReceiptAt(log[k].height, log[k].rid).follow
            /\ ~log[i].threw =>
                 /\ i < Len(log)
                 /\ log[i + 1] = Entry("resolve", log[i].height, hash, rid, <<>>, FALSE)
  /\ \A j \in 1 .. Len(log) :
       log[j].cb = "onTransaction" =>
         /\ \A i \in EntriesOf("onReceipt", log[j].tx) : i < j
         /\ j > 3
         /\ log[j - 1].cb = "complete" /\ log[j - 1].tx = log[j].tx
         /\ log[j - 2].cb = "resolve" /\ log[j - 2].tx = log[j].tx
         /\ log[j - 3].cb = "onReceipt" /\ log[j - 3].tx = log[j].tx
         /\ log[j - 3].rid = log[j - 2].rid
         /\ log[j - 3].height = log[j].height

\* onTransaction was invoked for a transaction with more than one receipt,
\* onReceipt having been invoked for each of them.
C24_Witness ==
  \E j \in 1 .. Len(log) :
    /\ log[j].cb = "onTransaction"
    /\ Len(log[j].receipts) > 1
    /\ {log[i].rid : i \in EntriesOf("onReceipt", log[j].tx)}
         = {log[j].receipts[k].receipt_id : k \in 1 .. Len(log[j].receipts)}

(***************************************************************************)
(* SpecShards: runIndexer on a NeardataProvider over chains with one block *)
(* of two shards: each shard holds a transaction and the receipt of the    *)
(* other shard's transaction, or the first shard has no chunk.             *)
(***************************************************************************)
\* "cross": shard 1 holds T1 (receipt 1) and receipt 2, shard 2 holds T2
\* (receipt 2) and receipt 1.  "nochunk": shard 1 has no chunk and holds
\* receipt 1, shard 2 holds T1 (receipt 1).
ShardChain(th, kind) ==
  [h \in Heights |->
     IF h # th THEN Message(h, <<Shard(<<>>, <<>>)>>)
     ELSE IF kind = "cross"
          THEN Message(h, <<Shard(<<Transaction("T1", <<1>>)>>,
                                  <<ReceiptOutcome(2, "SuccessValue", <<>>)>>),
                            Shard(<<Transaction("T2", <<2>>)>>,
                                  <<ReceiptOutcome(1, "SuccessValue", <<>>)>>)>>)
          ELSE Message(h, <<[chunk |-> FALSE, transactions |-> <<>>,
                             receipt_execution_outcomes |->
                               <<ReceiptOutcome(1, "SuccessValue", <<>>)>>],
                            Shard(<<Transaction("T1", <<1>>)>>, <<>>)>>)]

ShardChains == {ShardChain(th, kind) : th \in Heights, kind \in {"cross", "nochunk"}}

InitShards == InitWith(CorrOptions, ShardChains, {"Neardata"}, {1}, {Undefined}, "start")

SpecShards == InitShards /\ [][Next]_vars

\* The index of the shard of the block at height x that holds the
\* transaction, or the receipt.
ShardOfTx(x, hash) ==
  CHOOSE i \in 1 .. Len(chain[x].shards) :
    \E j \in 1 .. Len(chain[x].shards[i].transactions) :
      chain[x].shards[i].transactions[j].hash = hash

ShardOfReceipt(x, rid) ==
  CHOOSE i \in 1 .. Len(chain[x].shards) :
    \E j \in 1 .. Len(chain[x].shards[i].receipt_execution_outcomes) :
      chain[x].shards[i].receipt_execution_outcomes[j].receipt_id = rid

TxSteps == {"register", "processTransaction"}

ReceiptSteps == {"onReceipt", "resolve", "complete", "onTransaction", "processReceipt"}

\* C25: within one message every transaction of every shard is processed
\* (registration, processTransaction) before any receipt of any shard, and
\* each pass visits the shards in the message's order; hence a receipt is
\* correlated with a transaction of the same block, also when the
\* transaction is in a later shard than the receipt.
C25_TransactionsBeforeReceipts ==
  /\ \A i, j \in 1 .. Len(log) :
       (i < j /\ log[i].height = log[j].height) =>
         /\ ~(log[i].cb \in ReceiptSteps /\ log[j].cb \in TxSteps)
         /\ (log[i].cb \in TxSteps /\ log[j].cb \in TxSteps) =>
              ShardOfTx(log[i].height, log[i].tx) <= ShardOfTx(log[j].height, log[j].tx)
         /\ (log[i].cb \in ReceiptSteps /\ log[j].cb \in ReceiptSteps
               /\ log[i].rid # 0 /\ log[j].rid # 0) =>
              ShardOfReceipt(log[i].height, log[i].rid)
                <= ShardOfReceipt(log[j].height, log[j].rid)
  /\ \A k \in 1 .. Len(handed) :
       (/\ handed[k].preprocess /\ handed[k].preprocess_new_transactions
        /\ ~ThrewAt(handed[k].height)) =>
         \A t \in ChainTxs : \A q \in ChainReceipts :
           (/\ t.height = handed[k].height /\ q.height = handed[k].height
            /\ q.receipt_id \in t.ids) =>
             Logged("resolve", q.height, t.hash, q.receipt_id)

\* A receipt of the first shard was correlated with, and completed, a
\* transaction of the second shard of the same block, after both
\* transactions of the block were given to processTransaction.
C25_Witness ==
  \E i, j \in 1 .. Len(log) :
    /\ i < j
    /\ log[i].cb = "processTransaction" /\ log[j].cb = "onTransaction"
    /\ log[i].height = log[j].height
    /\ log[i].tx = log[j].tx
    /\ ShardOfTx(log[i].height, log[i].tx) = 2
    /\ ShardOfReceipt(log[j].height, log[j].receipts[1].receipt_id) = 1
    /\ \E k \in 1 .. Len(log) : log[k].cb = "processTransaction" /\ log[k].tx # log[i].tx

\* The positions of the log at which processBlockEnd was invoked at height x.
BlockEnds(x) == {i \in 1 .. Len(log) : log[i].cb = "processBlockEnd" /\ log[i].height = x}

\* C26: processBlockEnd is invoked exactly once for every message handed to
\* the state machine, whatever its visibility flags (prefetch, in-range or
\* postfetch block, preprocessing on or off), and after every other callback
\* of that message.  A message one of whose earlier callbacks failed gets
\* none: the failure ends its processBlock call.
C26_BlockEndOnce ==
  \A k \in 1 .. Len(handed) :
    LET x == handed[k].height
        failed == \E i \in 1 .. Len(log) :
                    log[i].height = x /\ log[i].threw /\ log[i].cb # "processBlockEnd"
    IN /\ Cardinality(BlockEnds(x)) = (IF failed THEN 0 ELSE 1)
       /\ \A e \in BlockEnds(x) : \A i \in 1 .. Len(log) :
            (log[i].height = x /\ i # e) => i < e

\* One run has invoked processBlockEnd on a prefetch block, on an in-range
\* block and on a postfetch block.
C26_Witness ==
  \E a, b, c \in 1 .. Len(handed) :
    /\ ~handed[a].handle_preprocessed_transactions_by_indexer
    /\ handed[b].handle_raw_events
    /\ ~handed[c].preprocess_new_transactions
    /\ \A k \in {a, b, c} : BlockEnds(handed[k].height) # {}

\* The heights a worker of the parallel streamer holds: being fetched, or
\* waiting for the retry.
Claimed == inflight \cup backoff

\* C27: in ParallelProviderStreamer the number of active fetch workers never
\* exceeds W and equals the number of heights held by workers; while
\* unclaimed heights below end remain it is W; and whenever a worker
\* finishes while unclaimed heights remain, a worker is started on the next
\* unclaimed height in the same step.
C27_WorkersHeldAtW ==
  /\ []((streamer = "Parallel" /\ pc # "call") =>
          /\ active <= workers
          /\ active = Cardinality(Claimed)
          /\ scheduled < streamEnd => active = workers)
  /\ [][(/\ streamer = "Parallel" /\ pc # "call"
          /\ \E x \in Claimed : x \notin Claimed'
          /\ scheduled < streamEnd) =>
           /\ scheduled \in inflight'
           /\ scheduled' = scheduled + 1
           /\ active' = active]_vars

\* With two workers or more, a worker that finished was reassigned: more
\* heights than W have been claimed, W workers are active and heights remain.
C27_Witness ==
  /\ streamer = "Parallel" /\ pc # "call"
  /\ workers >= 2
  /\ scheduled > first + workers
  /\ active = workers
  /\ scheduled < streamEnd
  /\ backoff # {}

\* C28: in ParallelProviderStreamer, while the fetch of a height h has not
\* succeeded (it is being fetched, or waits for its retry), no message of a
\* height above h has been delivered and the cursor has not passed h; a
\* worker of a higher height that completes meanwhile leaves its result in
\* the reorder buffer, delivers nothing, and is reassigned to the next
\* unclaimed height when one remains.
C28_FailingHeightBlocks ==
  /\ []((streamer = "Parallel" /\ pc # "call") =>
          \A h \in Claimed :
            /\ nextToEmit <= h
            /\ \A i \in 1 .. Len(pushed) : pushed[i] < h)
  /\ [][(streamer = "Parallel" /\ pc # "call") =>
           \A h \in Claimed \cap Claimed' : \A x \in Claimed \ Claimed' :
             x > h =>
               /\ x \in DOMAIN results'
               /\ pushed' = pushed
               /\ scheduled < streamEnd => scheduled \in inflight']_vars

\* A height waits for its retry while two results of higher heights are
\* held in the reorder buffer, a worker having been reassigned.
C28_Witness ==
  /\ streamer = "Parallel" /\ pc # "call"
  /\ \E h \in backoff :
       /\ Cardinality(DOMAIN results) >= 2
       /\ \A x \in DOMAIN results : x > h
       /\ pushed = <<>>
  /\ scheduled > first + workers

\* C29: AutoContinue saves the resume cursor h + 1 only after the block at
\* height h was processed without a callback failure.
C29_SaveOnlyAfterSuccess ==
  \A i \in 1 .. Len(saves) : ~ThrewAt(saves[i] - 1)

(***************************************************************************)
(* SpecBuffer: the streamers under a plain consumer, ProviderStreamer      *)
(* being constructed with a bufferSize of 1..MaxBufferSize.                *)
(***************************************************************************)
\* The bufferSize argument is drawn from 1..MaxBufferSize.
MaxBufferSize == 2

InitBuffer ==
  InitWithBuffer({DefaultOptions(r) : r \in {q \in ExplicitRanges :
                                               q.start_inclusive = 0
                                                 /\ q.end_exclusive = Undefined}},
                 AbsentChains, {"Provider", "Parallel"}, {1}, {Undefined}, "call",
                 1 .. MaxBufferSize)

SpecBuffer == InitBuffer /\ [][NextStream]_vars

\* C30: the queue between ProviderStreamer and the consumer applies
\* backpressure: the number of fetched messages buffered and not yet
\* consumed never exceeds the configured bufferSize, however slow the
\* consumer is.
C30_Backpressure ==
  (streamer = "Provider" /\ pc # "call") => Len(queue.values) <= bufferSize

\* C31: in every reachable state of ParallelProviderStreamer,
\* first <= nextToEmit <= scheduled <= max(first, end); every height of
\* [first, scheduled) is either passed by the cursor, held in the reorder
\* buffer or held by exactly one worker; the buffer holds only heights of
\* [nextToEmit, scheduled) and, a completion handled, none for nextToEmit;
\* and heights are claimed one at a time in increasing order.
C31_ParallelCursors ==
  /\ []((streamer = "Parallel" /\ pc # "call") =>
          /\ first <= nextToEmit
          /\ nextToEmit <= scheduled
          /\ scheduled <= Max(first, streamEnd)
          /\ first .. (scheduled - 1)
               = (first .. (nextToEmit - 1)) \cup DOMAIN results \cup Claimed
          /\ DOMAIN results \cap Claimed = {}
          /\ inflight \cap backoff = {}
          /\ active = Cardinality(Claimed)
          /\ \A x \in DOMAIN results \cup Claimed : nextToEmit <= x /\ x < scheduled
          /\ nextToEmit \notin DOMAIN results)
  /\ [][(streamer = "Parallel" /\ pc # "call") =>
           /\ scheduled' \in {scheduled, scheduled + 1}
           /\ Claimed' \ Claimed \subseteq {scheduled}
           /\ scheduled' = scheduled + 1 => scheduled \in inflight']_vars

\* Over a bounded range all heights are claimed: the cursor has moved, a
\* result waits in the buffer behind a height that waits for its retry, and
\* another worker is still fetching.
C31_Witness ==
  /\ streamer = "Parallel" /\ pc # "call"
  /\ first < nextToEmit
  /\ scheduled = streamEnd
  /\ DOMAIN results # {}
  /\ nextToEmit \in backoff
  /\ inflight # {}

(***************************************************************************)
(* SpecReplay: runIndexer on a NeardataProvider with preprocessing, over   *)
(* chains in which the source reports a receipt id of a transaction a      *)
(* second time, while the transaction is open or after it was completed.   *)
(***************************************************************************)
\* The receipt ids executed in consecutive blocks, one per block.
ReplayOrders == {<<1, 1>>, <<1, 2, 1>>, <<1, 1, 2>>, <<1, 2, 2>>}

\* T1 at height th names the ids of order; receipt order[k] is executed at
\* height th + off + k - 1 and reports no follow-on id.
ReplayChain(th, order, off) ==
  [h \in Heights |->
     Message(h, <<Shard(
       IF h = th
       THEN <<Transaction("T1", IF 2 \in SeqToSet(order) THEN <<1, 2>> ELSE <<1>>)>>
       ELSE <<>>,
       IF h - th - off + 1 \in 1 .. Len(order)
       THEN <<ReceiptOutcome(order[h - th - off + 1], "SuccessValue", <<>>)>>
       ELSE <<>>)>>)]

ReplayChains ==
  {ReplayChain(th, order, off) : th \in Heights, order \in ReplayOrders, off \in 0 .. 1}

InitReplay == InitWith(OrderOptions, ReplayChains, {"Neardata"}, {1}, {Undefined}, "start")

SpecReplay == InitReplay /\ [][Next]_vars

\* C32: over any run, also when callbacks fail and the failures are
\* swallowed, a transaction hash is completed, and onTransaction invoked
\* for it, at most once; once it has left the open set no later receipt is
\* correlated with it.
C32_CompletedAtMostOnce ==
  \A t \in ChainTxs :
    /\ Cardinality(EntriesOf("onTransaction", t.hash)) <= 1
    /\ Cardinality(EntriesOf("complete", t.hash)) <= 1
    /\ \A c \in EntriesOf("complete", t.hash) : \A i \in 1 .. Len(log) :
         (i > c /\ log[i].tx = t.hash) => log[i].cb = "onTransaction" /\ i = c + 1

\* onTransaction failed and the failure was swallowed; a receipt id of the
\* transaction was observed again in a later block.
C32_Witness ==
  \E t \in ChainTxs : \E j \in EntriesOf("onTransaction", t.hash) :
    /\ log[j].threw
    /\ ~err.set
    /\ \E i \in 1 .. Len(log) :
         /\ i > j
         /\ log[i].cb = "processReceipt"
         /\ log[i].rid \in t.ids
         /\ log[i].height > log[j].height

(***************************************************************************)
(* SpecPrefetch: runs whose fetch window opens with a prefetch region, over *)
(* chains whose transaction may sit in that region with its receipts in    *)
(* the same block, the following blocks, or both.                          *)
(***************************************************************************)
PrefetchOptions ==
  {o \in CorrOptions :
     /\ o.preprocess_transactions.set
     /\ o.preprocess_transactions.prefetch_blocks = MaxMargin
     /\ o.range.start_inclusive = MaxStart}

InitPrefetch == InitWith(PrefetchOptions, OneTxChains, {"Neardata"}, {1}, {Undefined}, "start")

SpecPrefetch == InitPrefetch /\ [][Next]_vars

\* t was registered while a block of the prefetch region was processed.
RegisteredInPrefetch(t) ==
  \E i \in EntriesOf("register", t.hash) : InPrefetchRegion(log[i].height)

\* The receipt ids of t resolved while blocks of the prefetch region were
\* processed.
ResolvedInPrefetch(t) ==
  {log[i].rid : i \in {j \in EntriesOf("resolve", t.hash) : InPrefetchRegion(log[j].height)}}

\* C33: a transaction registered in a prefetch block stays in the open set
\* until it completes; no onReceipt is invoked for its receipts resolved in
\* the prefetch region; completing in an in-range or postfetch block invokes
\* onTransaction there, with every owed receipt resolved in the list, those
\* resolved during prefetch included; completing inside the prefetch region
\* removes it from the open set with no onTransaction ever.
C33_PrefetchRegistered ==
  \A t \in ChainTxs :
    RegisteredInPrefetch(t) =>
      /\ EntriesOf("complete", t.hash) = {} => t.hash \in DOMAIN pendingTransactions
      /\ \A i \in EntriesOf("onReceipt", t.hash) : log[i].rid \notin ResolvedInPrefetch(t)
      /\ \A c \in EntriesOf("complete", t.hash) :
           /\ t.hash \notin DOMAIN pendingTransactions
           /\ InPrefetchRegion(log[c].height) => EntriesOf("onTransaction", t.hash) = {}
           /\ ~InPrefetchRegion(log[c].height) =>
                /\ c + 1 \in EntriesOf("onTransaction", t.hash)
                /\ log[c + 1].height = log[c].height
                /\ {log[c + 1].receipts[k].receipt_id : k \in 1 .. Len(log[c + 1].receipts)}
                     = Owed(t)
                /\ ResolvedInPrefetch(t) \subseteq
                     {log[c + 1].receipts[k].receipt_id : k \in 1 .. Len(log[c + 1].receipts)}
                /\ \A k \in 1 .. Len(log[c + 1].receipts) : log[c + 1].receipts[k].resolved

\* A transaction registered in the prefetch region, with a receipt resolved
\* there, was completed outside it and handed to onTransaction.
C33_Witness ==
  \E t \in ChainTxs :
    /\ RegisteredInPrefetch(t)
    /\ ResolvedInPrefetch(t) # {}
    /\ \E j \in EntriesOf("onTransaction", t.hash) : ~InPrefetchRegion(log[j].height)

\* A transaction registered in the prefetch region was completed inside it.
C33_WitnessInside ==
  \E t \in ChainTxs :
    /\ RegisteredInPrefetch(t)
    /\ \E c \in EntriesOf("complete", t.hash) : InPrefetchRegion(log[c].height)
    /\ pc = "resolved"

(***************************************************************************)
(* SpecCursor: auto-continue runs, for every stored cursor, default start, *)
(* end kind, genesis and margins, with and without failing callbacks.      *)
(***************************************************************************)
CursorOptions ==
  {o \in IndexerOptions(AutoContinueRanges, PreprocessSettings) :
     /\ o.genesis_block_height \in {0, MaxGenesis}
     /\ o.preprocess_transactions.prefetch_blocks \in {0, MaxMargin}
     /\ o.preprocess_transactions.postfetch_blocks \in {0, MaxMargin}}

InitCursor == InitWith(CursorOptions, PlainChains, {"Neardata"}, {1}, SavedSet, "start")

SpecCursor == InitCursor /\ [][Next]_vars

\* The end of the requested range of an auto-continue run whose start is
\* start: the height given, start + the count given, or none.
CursorEnd(start) ==
  CASE options.range.end.kind = "Height" -> options.range.end.height
    [] options.range.end.kind = "Count" -> start + options.range.end.count
    [] OTHER -> Undefined

\* C34: within one auto-continue run over the requested range [start, end),
\* the values passed to save are strictly increasing and each saved value v
\* has start < v <= end (no upper limit with an infinite end).
C34_CursorBounds ==
  (options.range.kind = "AutoContinue" /\ pc # "start") =>
    /\ \A i \in 1 .. Len(saves) :
         /\ RequestedStart < saves[i]
         /\ CursorEnd(RequestedStart) # Undefined => saves[i] <= CursorEnd(RequestedStart)
    /\ \A i \in 1 .. Len(saves) : \A j \in 1 .. Len(saves) : i < j => saves[i] < saves[j]

\* A run with a postfetch region saved two cursors, the last one being the
\* requested end, and went on to process a block of the postfetch region.
C34_Witness ==
  /\ options.range.kind = "AutoContinue"
  /\ Len(saves) >= 2
  /\ CursorEnd(RequestedStart) # Undefined
  /\ saves[Len(saves)] = CursorEnd(RequestedStart)
  /\ \E i \in 1 .. Len(handed) : InPostfetchRegion(handed[i].height)

(***************************************************************************)
(* The two queue-backed streamers compared (checked under SpecStream).     *)
(***************************************************************************)
\* No fetch of the pipeline is awaited or waits for its retry.
PipelineIdle == pc # "call" /\ inflight = {} /\ backoff = {}

\* C35: over the same source and the same bounded range [first, end), with
\* fetches completing and failing in any order, ProviderStreamer and
\* ParallelProviderStreamer with any number of workers each deliver the
\* messages present in the range, in increasing order of height, and then
\* end the stream: once no fetch is outstanding the stream is closed and the
\* delivered sequence is that one, whichever streamer runs.
C35_SameSequenceThenEnd ==
  (PipelineIdle /\ lastExclusive # Undefined) =>
    /\ queue.done
    /\ SeqToSet(pushed) = PresentInRange
    /\ Len(pushed) = Cardinality(PresentInRange)
    /\ \A i \in 1 .. Len(pushed) : \A j \in 1 .. Len(pushed) : i < j => pushed[i] < pushed[j]

====
